---- MODULE Spec2Model ----
(***************************************************************************)
(* A model of the cisTEM plugin's CTF record builder (convert.py), of the  *)
(* alignment parameter file codec and merge, of the percent-used scheduler *)
(* and of the step graph of the 2D classification protocol                 *)
(* (protocol_refine2d.py).                                                 *)
(*                                                                         *)
(* Numbers.  Python floats are modelled as exact values: rationals are     *)
(* pairs <<n, d>> with d > 0 compared by cross multiplication, and the     *)
(* values written to a parameter file are fixed-point integers counted in  *)
(* units of 1/1000.  NaN is a cell of its own.                             *)
(***************************************************************************)
EXTENDS Integers, Sequences, FiniteSets, TLC

VARIABLES
    percArgs,   \* arguments of the _calcPercUsed call
    percPc,     \* "call" before _calcPercUsed runs, "returned" after
    percPre,    \* percUsed as it stands before the final floor (line 750)
    percRet,    \* value returned by the last _calcPercUsed call
    ctfArray,   \* readCtfModelStack argument: None, one row or a stack of rows
    rotAvgArray,\* readCtfModelStack argument: None or the ice-ring densities
    item,       \* readCtfModelStack argument: the row to use
    ctfModel,   \* the CTFModel object handed to readCtfModelStack
    ctfTilt,    \* the (tiltAxis, tiltAngle, thickness) readCtfModelStack returns
    ctfPc,      \* "call" before readCtfModelStack runs, "returned" after
    numberOfBlocks, \* _mergeAllParFiles argument
    blockFiles, \* the block files iter_par_block of the iteration, by block
    blocksAtCall, \* the block files as _mergeAllParFiles found them
    outFile,    \* the merged file iter_par of the iteration
    mergeErr,   \* block whose path the raised error names, 0 when none is raised
    mergePc,    \* "call" before _mergeAllParFiles runs, "returned" or "raised" after
    inputParticles, \* the input SetOfParticles, in storage (id) order
    hasAlignment,   \* inputParticles.hasAlignment()
    parFile,    \* the parameter file classification_input_par_1.par
    parRows,    \* the rows FrealignParFile yielded on the last read
    outputSet,  \* the particles updated by the last read
    parErr,     \* exception raised by the last read, "none" when none
    parPc,      \* "convert", "write", "written", then "read" or "filled"
    parStack,   \* the ids of the particles in the stack written, in image order
    numberOfThreads, \* protocol parameter of the refine2d run
    numberOfMpi,     \* protocol parameter of the refine2d run
    steps,      \* the steps _insertAllSteps inserted, by step id
    stepStatus,  \* by step id: "new", "running", "finished" or "failed"
    resArgs, \* refineStep's iteration, finalIter and the limits of the run
    resPc, \* "call" before _calcHighResLimit runs, "returned" after
    resRet, \* the limit _calcHighResLimit returned
    avrotFile, \* the _avrot.txt file handed to parseCtffindOutput
    avrotRet, \* what parseCtffindOutput(filename, avrot=True) returned or raised
    avrotPc, \* "call" before the parser runs, "returned" after
    ctfFn, \* the CTF result file named to readCtfModel
    rotAvgFn, \* the companion _avrot file named to readCtfModel, if any
    parsedResult, \* what parseCtffindOutput(ctfFn) returned or raised
    fileModel, \* the CTFModel object handed to readCtfModel
    fileErr, \* exception raised by readCtfModel, "none" when none
    filePc, \* "call" before readCtfModel runs, "returned" after
    itemKind, \* which per-item step runs: "ctffind", "picking" or "unblur"
    itemList, \* the micrographs or movies handed to the step
    itemPos, \* position in itemList of the item the step works on
    itemOut, \* by item done, what the step logged: "none", "exception" or "logLine"
    itemErr, \* exception that left the step, "none" when none
    itemPc, \* "call" while the step runs, "returned" after
    cmdProtocol, \* the options of the protocol that creates the ProgramCtffind
    cmdKwargs, \* the keyword arguments handed to getCommand, by key the kind of value
    cmdArgs, \* self._args, the template as a sequence of tokens
    cmdParams, \* self._params, by key the kind of value
    cmdOut, \* the fields of the arguments getCommand returned
    cmdErr, \* exception raised by getCommand, "none" when none
    cmdPc, \* "new" before __init__, "ready" after, "returned" after getCommand
    coordMic, \* the micrograph handed to readCoordinates: its id and height
    pltFile, \* the .plt file named to readCoordinates
    coordsSet, \* the coordinates of the output set, in order of appending
    coordsAtCall, \* coordsSet as it was when readCoordinates was called
    coordErr, \* exception raised by readCoordinates, "none" when none
    coordPc, \* "call" before readCoordinates runs, "returned" after
    runParts, \* number of particles of the input set of the run
    runIterations, \* numberOfIterations of the run
    runJobs, \* jobs of _getJobsParams, max(numberOfThreads, numberOfMpi)
    runSteps, \* the steps _insertAllSteps inserted, by step id
    runStatus, \* by step id: "new", "running", "finished" or "failed"
    currPtcl, \* self.currPtcl, the particle counter the refine jobs share
    runRanges, \* by step id, firstPart and lastPart of a started refineStep
    runFiles, \* the files complete steps have written
    runStarted, \* the ids of the started steps, in order of starting
    lastIterRun, \* numberOfIterations and jobs of the finished run
    lastIterFiles, \* the parameter files in the run's folder that match _iterTemplate
    lastIterRet, \* what _lastIter() returned
    lastIterPc, \* "call" before _lastIter runs, "returned" after
    tiArray, \* ctfResult of the series, as parseCtffindOutput returned it
    tiRot, \* avrotResult of the series
    tiImages, \* number of tilt images of the series
    tiCtf, \* ctf, the one CTFModel createOutputStep creates before its loop
    tiIndex, \* i, the index of the next tilt image of the loop
    tiSeries, \* the CTFTomo objects appended to newCTFTomoSeries, in order
    tiPc, \* loop while createOutputStep iterates the images, updated after
    argKind, \* which protocol runs, unblur or picking
    argItems, \* number of movies or micrographs, one step each
    argWorkers, \* number of steps the executor runs at the same time
    argShared, \* self._args of the unblur protocol, or the args dictionary the picking steps share
    argPc, \* by item, new, written (shared object set, program not yet run) or done
    argRun, \* by item, the values the program run for it received
    tsImages, \* by tilt series, its number of tilt images
    tsSteps, \* the steps _insertAllSteps inserted, by step id
    tsStatus, \* by step id, new, running, finished or failed
    tsLog, \* by tilt series, what ctffind left as its log, none before it ran
    tsOut, \* the output SetOfCTFTomoSeries, its stream state and its series in order of appending
    tsCreations, \* number of times SetOfCTFTomoSeries.create ran
    micDict, \* the micrographs _loadMics returned, by key the CTF they carry
    ctfDict, \* the CTFs _loadCTFs returned, by the key of their micrograph
    micClose, \* whether the micrograph stream is closed
    ctfClosed, \* whether the CTF stream is closed
    readyMics, \* the dictionary _loadInputList returned, by key the CTF set on the micrograph
    loadClosed, \* the closed status _loadInputList returned
    loadPc \* call before _loadInputList runs, returned after

percVars == <<percArgs, percPc, percPre, percRet>>

ctfVars == <<ctfArray, rotAvgArray, item, ctfModel, ctfTilt, ctfPc>>

mergeVars == <<numberOfBlocks, blockFiles, blocksAtCall, outFile, mergeErr, mergePc>>

parVars == <<inputParticles, hasAlignment, parFile, parRows, outputSet, parErr, parPc,
            parStack>>

stepsVars == <<numberOfThreads, numberOfMpi, steps, stepStatus>>

resVars == <<resArgs, resPc, resRet>>

avrotVars == <<avrotFile, avrotRet, avrotPc>>

fileVars == <<ctfFn, rotAvgFn, parsedResult, fileModel, fileErr, filePc>>

itemVars == <<itemKind, itemList, itemPos, itemOut, itemErr, itemPc>>

cmdVars == <<cmdProtocol, cmdKwargs, cmdArgs, cmdParams, cmdOut, cmdErr, cmdPc>>

coordVars == <<coordMic, pltFile, coordsSet, coordsAtCall, coordErr, coordPc>>

runVars == <<runParts, runIterations, runJobs, runSteps, runStatus, currPtcl, runRanges, runFiles, runStarted>>

lastIterVars == <<lastIterRun, lastIterFiles, lastIterRet, lastIterPc>>

tiVars == <<tiArray, tiRot, tiImages, tiCtf, tiIndex, tiSeries, tiPc>>

argsVars == <<argKind, argItems, argWorkers, argShared, argPc, argRun>>

tsVars == <<tsImages, tsSteps, tsStatus, tsLog, tsOut, tsCreations>>

loadVars == <<micDict, ctfDict, micClose, ctfClosed, readyMics, loadClosed, loadPc>>

vars == <<percArgs, percPc, percPre, percRet,
          ctfArray, rotAvgArray, item, ctfModel, ctfTilt, ctfPc,
          numberOfBlocks, blockFiles, blocksAtCall, outFile, mergeErr, mergePc,
          inputParticles, hasAlignment, parFile, parRows, outputSet, parErr, parPc,
          parStack,
          numberOfThreads, numberOfMpi, steps, stepStatus,
          resArgs, resPc, resRet,
          avrotFile, avrotRet, avrotPc,
          ctfFn, rotAvgFn, parsedResult, fileModel, fileErr, filePc,
          itemKind, itemList, itemPos, itemOut, itemErr, itemPc,
          cmdProtocol, cmdKwargs, cmdArgs, cmdParams, cmdOut, cmdErr, cmdPc,
          coordMic, pltFile, coordsSet, coordsAtCall, coordErr, coordPc,
          runParts, runIterations, runJobs, runSteps, runStatus, currPtcl, runRanges, runFiles, runStarted,
          lastIterRun, lastIterFiles, lastIterRet, lastIterPc,
          tiArray, tiRot, tiImages, tiCtf, tiIndex, tiSeries, tiPc,
          argKind, argItems, argWorkers, argShared, argPc, argRun,
          tsImages, tsSteps, tsStatus, tsLog, tsOut, tsCreations,
          micDict, ctfDict, micClose, ctfClosed, readyMics, loadClosed, loadPc>>

(***************************************************************************)
(* Rationals                                                               *)
(***************************************************************************)
RECURSIVE Gcd(_, _)
Gcd(a, b) == IF b = 0 THEN a ELSE Gcd(b, a % b)

\* n/d in lowest terms (n >= 0, d > 0), so that products stay small.
Rat(n, d) == LET g == Gcd(n, d) IN IF g = 0 THEN <<n, d>> ELSE <<n \div g, d \div g>>
RLess(a, b) == a[1] * b[2] < b[1] * a[2]
REq(a, b) == a[1] * b[2] = b[1] * a[2]
RMax(a, b) == IF RLess(a, b) THEN b ELSE a
RMin(a, b) == IF RLess(b, a) THEN b ELSE a

(***************************************************************************)
(* Percent-used scheduler: CistemProtRefine2D._calcPercUsed                *)
(***************************************************************************)
\* Largest iteration count drawn for iter_total and iter_done.
MaxIter == 36

NumClsValues == {1, 5}
NumPartsValues == {100, 300, 2000, 7000, 50000}
PercUsedValues == {10, 50, 100}

\* numCls * 300 / numParts * 100.0 (true division)
PercFormula(numCls, numParts) == Rat(numCls * 300 * 100, numParts)

\* A slip that gives the early iterations the 30% clamp of the middle ones.
PercEarly_clamp30(numCls, numParts) ==
    LET p == PercFormula(numCls, numParts)
    IN  IF RLess(Rat(100, 1), p) THEN Rat(100, 1)
        ELSE IF RLess(p, Rat(30, 1)) THEN Rat(30, 1)
        ELSE p

\* percUsed = formula; if percUsed > 100.0: percUsed = 100.0
PercEarly(numCls, numParts) ==
    LET p == PercFormula(numCls, numParts)
    IN  IF RLess(Rat(100, 1), p) THEN Rat(100, 1) ELSE p

\* percUsed = formula; if > 100.0: 100.0 elif < 30: 30.0
PercMiddle(numCls, numParts) ==
    LET p == PercFormula(numCls, numParts)
    IN  IF RLess(Rat(100, 1), p) THEN Rat(100, 1)
        ELSE IF RLess(p, Rat(30, 1)) THEN Rat(30, 1)
        ELSE p

\* A slip that forgets the 30% clamp of the middle iterations.
PercBeforeFloor_noClamp(iter_total, iter_done, numCls, numParts, percUsed, autoPerc) ==
    IF autoPerc
    THEN IF iter_total < 10 THEN Rat(100, 1)
         ELSE IF iter_done < iter_total - 5
              THEN PercEarly(numCls, numParts)
              ELSE Rat(100, 1)
    ELSE Rat(percUsed, 1)

\* A slip that uses the cutoff of the 10..19 tier in every tier.
PercBeforeFloor_oneCutoff(iter_total, iter_done, numCls, numParts, percUsed, autoPerc) ==
    IF autoPerc
    THEN IF iter_total < 10 THEN Rat(100, 1)
         ELSE IF iter_done < 5 THEN PercEarly(numCls, numParts)
         ELSE IF iter_done < iter_total - 5 THEN PercMiddle(numCls, numParts)
         ELSE Rat(100, 1)
    ELSE Rat(percUsed, 1)

\* The body of _calcPercUsed up to, not including, the final floor.
PercBeforeFloor(iter_total, iter_done, numCls, numParts, percUsed, autoPerc) ==
    IF autoPerc
    THEN IF iter_total < 10
         THEN Rat(100, 1)
         ELSE IF iter_total < 20
              THEN IF iter_done < 5
                   THEN PercEarly(numCls, numParts)
                   ELSE IF iter_done < iter_total - 5
                        THEN PercMiddle(numCls, numParts)
                        ELSE Rat(100, 1)
              ELSE IF iter_total < 30
                   THEN IF iter_done < 10
                        THEN PercEarly(numCls, numParts)
                        ELSE IF iter_done < iter_total - 5
                             THEN PercMiddle(numCls, numParts)
                             ELSE Rat(100, 1)
                   ELSE IF iter_done < 15
                        THEN PercEarly(numCls, numParts)
                        ELSE IF iter_done < iter_total - 5
                             THEN PercMiddle(numCls, numParts)
                             ELSE Rat(100, 1)
    ELSE Rat(percUsed, 1)

\* A slip that returns without the final floor.
calcPercUsed_noFloor(iter_total, iter_done, numCls, numParts, percUsed, autoPerc) ==
    PercBeforeFloor(iter_total, iter_done, numCls, numParts, percUsed, autoPerc)

\* minPercUsed = percUsed; ...; if percUsed < minPercUsed: percUsed = minPercUsed
_calcPercUsed(iter_total, iter_done, numCls, numParts, percUsed, autoPerc) ==
    LET p == PercBeforeFloor(iter_total, iter_done, numCls, numParts, percUsed, autoPerc)
    IN  IF RLess(p, Rat(percUsed, 1)) THEN Rat(percUsed, 1) ELSE p

(***************************************************************************)
(* CTF record builder: convert.py setWrongDefocus, readCtfModelStack        *)
(*                                                                         *)
(* A cell of the numeric array is a number or NaN.  Defocus, fit and       *)
(* resolution keep their unit; a phase shift is counted in milliradians on *)
(* input and in microdegrees once converted.  A field of the CTFModel is   *)
(* either unset (None) or holds a number.                                  *)
(***************************************************************************)
Num(v) == [nan |-> FALSE, v |-> v]
NaN == [nan |-> TRUE, v |-> 0]
Unset == [set |-> FALSE, v |-> 0]
Val(v) == [set |-> TRUE, v |-> v]
None3 == <<Unset, Unset, Unset>>

\* Largest number of rows of a stack array.
MaxStackRows == 2

\* Numbers of columns of a result row: plain, with tomography columns,
\* and with fewer or more extra columns than those three.
RowLens == {7, 8, 10, 11}

\* The values drawn for column c (0-based) of a result row.
ColValues(c) ==
    CASE c = 0 -> {NaN, Num(1)}
      [] c \in {1, 2} -> {NaN, Num(-1), Num(0), Num(5)}
      [] c = 3 -> {NaN, Num(3)}
      [] c = 4 -> {NaN, Num(0), Num(2)}
      [] c = 5 -> {NaN, Num(1)}
      [] c = 6 -> {NaN, Num(4)}
      [] c = 7 -> {NaN, Num(7)}
      [] c = 8 -> {Num(8)}
      [] c = 9 -> {NaN, Num(9)}
      [] OTHER -> {Num(10)}

\* Every row over the column values: the first seven columns, then the
\* tomography columns for the longer rows.
Rows7 ==
    {<<c0, c1, c2, c3, c4, c5, c6>> :
        c0 \in ColValues(0), c1 \in ColValues(1), c2 \in ColValues(2),
        c3 \in ColValues(3), c4 \in ColValues(4), c5 \in ColValues(5),
        c6 \in ColValues(6)}

\* The columns 7..n-1 of a row of n columns.
ExtraCols(n) ==
    {t \in [1..(n - 7) -> UNION {ColValues(c) : c \in 7..(n - 1)}] :
        \A k \in 1..(n - 7) : t[k] \in ColValues(6 + k)}

RowsOfLen(n) ==
    IF n = 7 THEN Rows7
    ELSE {r \o t : r \in Rows7, t \in ExtraCols(n)}

CtfRows == UNION {RowsOfLen(n) : n \in RowLens}

\* The rows a stack array is built from: valid with and without phase
\* shift, with a NaN, with a negative defocus.
StackRows ==
    { <<Num(1), Num(5), Num(5), Num(3), Num(2), Num(1), Num(4)>>,
      <<Num(1), Num(5), Num(0), Num(3), Num(0), Num(1), Num(4)>>,
      <<Num(1), Num(5), Num(5), NaN, Num(2), Num(1), Num(4)>>,
      <<Num(1), Num(-1), Num(5), Num(3), Num(2), Num(1), Num(4)>>,
      <<Num(1), Num(0), Num(5), Num(3), Num(0), Num(1), Num(4), Num(7), Num(8), Num(9)>> }

\* ctfArray: None, a 1-D array (one row) or a 2-D array (a stack of rows).
CtfArrays ==
    {[ndim |-> 0, rows |-> <<>>]}
    \cup {[ndim |-> 1, rows |-> <<r>>] : r \in CtfRows}
    \cup UNION {{[ndim |-> 2, rows |-> rs] : rs \in [1..n -> StackRows]} : n \in 1..MaxStackRows}

ArrayIsNone(a) == a.ndim = 0

\* np.rad2deg: milliradians to microdegrees (180/pi = 57.296 to 5 digits)
Rad2Deg(x) == x * 57296

\* ctfModel = CTFModel(): every field unset
NewCtfModel ==
    [defocusU |-> Unset, defocusV |-> Unset, defocusAngle |-> Unset,
     fitQuality |-> Unset, resolution |-> Unset, phaseShift |-> Unset,
     iceRing |-> Unset]

\* setWrongDefocus as a slip would write it: the same value in all three.
setWrongDefocus_allSame(m) ==
    [m EXCEPT !.defocusU = Val(-999), !.defocusV = Val(-999),
              !.defocusAngle = Val(-999)]

setWrongDefocus(m) ==
    [m EXCEPT !.defocusU = Val(-999), !.defocusV = Val(-1),
              !.defocusAngle = Val(-999)]

\* CTFModel.setStandardDefocus (pwem): store the three values in the
\* standard form defocusU >= defocusV, 0 <= defocusAngle < 180.  deg is
\* the size of one degree in the unit of a.
setStandardDefocusIn(m, u, v, a, deg) ==
    LET u1 == IF v > u THEN v ELSE u
        v1 == IF v > u THEN u ELSE v
        a1 == IF v > u THEN a + 90 * deg ELSE a
        a2 == IF a1 >= 180 * deg THEN a1 - 180 * deg
              ELSE IF a1 < 0 THEN a1 + 180 * deg ELSE a1
    IN  [m EXCEPT !.defocusU = Val(u1), !.defocusV = Val(v1),
                  !.defocusAngle = Val(a2)]

\* setStandardDefocus on the values of a result row (whole degrees)
setStandardDefocus(m, u, v, a) == setStandardDefocusIn(m, u, v, a, 1)

\* values = ctfArray[item] if ctfArray.ndim > 1 else ctfArray
Values(a, it) == IF a.ndim > 1 THEN a.rows[it + 1] ELSE a.rows[1]

\* np.isnan(values).any(axis=0)
AnyNaN(values) == \E k \in 1..Len(values) : values[k].nan

\* values[k] < 0 (false for NaN)
Negative(c) == ~c.nan /\ c.v < 0

\* The validity test as a slip would write it: defocus2 is not looked at.
InvalidCtf_noDefocus2(a, it) ==
    \/ ArrayIsNone(a)
    \/ AnyNaN(Values(a, it))
    \/ Negative(Values(a, it)[2])

\* ctfArray is None or np.isnan(values).any(axis=0) or values[1] < 0 or values[2] < 0
InvalidCtf(a, it) ==
    \/ ArrayIsNone(a)
    \/ AnyNaN(Values(a, it))
    \/ Negative(Values(a, it)[2])
    \/ Negative(Values(a, it)[3])

\* The tilt triple as a reading of "10 or more columns" would give it.
TiltOf_atLeast10(values) ==
    IF Len(values) >= 10
    THEN <<Val(values[8].v), Val(values[9].v), Val(values[10].v)>>
    ELSE None3

\* if len(values) == 10: tiltAxis, tiltAngle, thickness = values[7], values[8], values[9]
TiltOf(values) ==
    IF Len(values) = 10
    THEN <<Val(values[8].v), Val(values[9].v), Val(values[10].v)>>
    ELSE None3

\* The model after the if/else of readCtfModelStack, with
\* ctfFit, ctfResolution, ctfPhaseShift as the branch taken leaves them.
CtfBranch(m, a, it) ==
    IF InvalidCtf(a, it)
    THEN [model |-> setWrongDefocus(m), fit |-> -999, res |-> -999, phase |-> 0,
          tilt |-> None3]
    ELSE LET values == Values(a, it)
         IN  [model |-> setStandardDefocus(m, values[2].v, values[3].v, values[4].v),
              fit |-> values[6].v, res |-> values[7].v, phase |-> values[5].v,
              tilt |-> TiltOf(values)]

\* rotAvgArray[item] if len(rotAvgArray) > 1 else rotAvgArray[0]
IceRing(rot, it) == IF Len(rot.vals) > 1 THEN rot.vals[it + 1] ELSE rot.vals[1]

\* The phase shift stored whatever its value.
SetPhaseShift_always(m, ctfPhaseShiftDeg) ==
    [m EXCEPT !.phaseShift = Val(ctfPhaseShiftDeg)]

\* if ctfPhaseShiftDeg != 0: ctfModel.setPhaseShift(ctfPhaseShiftDeg)
SetPhaseShift(m, ctfPhaseShiftDeg) ==
    IF ctfPhaseShiftDeg # 0
    THEN [m EXCEPT !.phaseShift = Val(ctfPhaseShiftDeg)]
    ELSE m

\* readCtfModelStack(ctfModel, ctfArray, rotAvgArray, item): the model it
\* leaves and the tilt triple it returns.
readCtfModelStack(m, a, rot, it) ==
    LET b == CtfBranch(m, a, it)
        m1 == [b.model EXCEPT !.fitQuality = Val(b.fit),
                              !.resolution = Val(b.res)]
        ctfPhaseShiftDeg == Rad2Deg(b.phase)
        m2 == SetPhaseShift(m1, ctfPhaseShiftDeg)
        m3 == IF rot.some
              THEN [m2 EXCEPT !.iceRing = Val(IceRing(rot, it))]
              ELSE m2
    IN  [model |-> m3, tilt |-> b.tilt]

\* rotAvgArray: None, one density for all images, or one per row.
RotAvgArrays(a) ==
    {[some |-> FALSE, vals |-> <<>>], [some |-> TRUE, vals |-> <<7>>]}
    \cup (IF Len(a.rows) > 1
          THEN {[some |-> TRUE, vals |-> [k \in 1..Len(a.rows) |-> 6 + k]]}
          ELSE {})

\* item: a row of the stack; any index when the array is not a stack.
Items(a) == IF a.ndim > 1 THEN 0..(Len(a.rows) - 1) ELSE {0, 1}

\* The caller holds a newly created model and has chosen the arguments.
CtfInit ==
    /\ ctfArray \in CtfArrays
    /\ rotAvgArray \in RotAvgArrays(ctfArray)
    /\ item \in Items(ctfArray)
    /\ ctfModel = NewCtfModel
    /\ ctfTilt = None3
    /\ ctfPc = "call"

\* The CTF component at rest, for the specifications of other components.
CtfIdle ==
    /\ ctfArray = [ndim |-> 0, rows |-> <<>>]
    /\ rotAvgArray = [some |-> FALSE, vals |-> <<>>]
    /\ item = 0
    /\ ctfModel = NewCtfModel
    /\ ctfTilt = None3
    /\ ctfPc = "idle"

\* One call of readCtfModelStack on the chosen arguments.
CallReadCtfModelStack ==
    /\ ctfPc = "call"
    /\ ctfPc' = "returned"
    /\ LET r == readCtfModelStack(ctfModel, ctfArray, rotAvgArray, item)
       IN  /\ ctfModel' = r.model
           /\ ctfTilt' = r.tilt
    /\ UNCHANGED <<ctfArray, rotAvgArray, item>>

CtfNext == CallReadCtfModelStack

\* The argument tuples of _calcPercUsed the model draws.
PercArgsSet ==
    [iter_total : 1..MaxIter, iter_done : 0..MaxIter, numCls : NumClsValues,
     numParts : NumPartsValues, percUsed : PercUsedValues, autoPerc : BOOLEAN]

\* The caller has chosen the arguments; the function has not run yet.
PercInit ==
    /\ percArgs \in PercArgsSet
    /\ percPc = "call"
    /\ percPre = Rat(0, 1)
    /\ percRet = Rat(0, 1)

\* One call of _calcPercUsed on the chosen arguments.
CallCalcPercUsed ==
    /\ percPc = "call"
    /\ percPc' = "returned"
    /\ percPre' = PercBeforeFloor(percArgs.iter_total, percArgs.iter_done,
                                  percArgs.numCls, percArgs.numParts,
                                  percArgs.percUsed, percArgs.autoPerc)
    /\ percRet' = _calcPercUsed(percArgs.iter_total, percArgs.iter_done,
                                percArgs.numCls, percArgs.numParts,
                                percArgs.percUsed, percArgs.autoPerc)
    /\ UNCHANGED percArgs

PercNext == CallCalcPercUsed

\* The scheduler at rest, for the specifications of other components.
PercIdle ==
    /\ percArgs = [iter_total |-> 1, iter_done |-> 0, numCls |-> 1,
                   numParts |-> 100, percUsed |-> 100, autoPerc |-> FALSE]
    /\ percPc = "idle"
    /\ percPre = Rat(0, 1)
    /\ percRet = Rat(0, 1)

(***************************************************************************)
(* Merge of the block files: CistemProtRefine2D._mergeAllParFiles           *)
(*                                                                         *)
(* A line of a parameter file is a header line, which starts with 'C', or  *)
(* the data row of one particle index.  A file is absent or holds lines.   *)
(***************************************************************************)
CLine == [c |-> TRUE, idx |-> 0]
Row(k) == [c |-> FALSE, idx |-> k]
Absent == [exists |-> FALSE, lines |-> <<>>]
File(ls) == [exists |-> TRUE, lines |-> ls]

\* Largest number of blocks (jobs) of an iteration.
MaxBlocks == 3

\* Particle indexes and numbers of lines of the block files drawn.
RowIndexes == 1..3
BlockLens == 0..2

ParLines == {CLine} \cup {Row(k) : k \in RowIndexes}

BlockFileValues ==
    {Absent} \cup UNION {{File(ls) : ls \in [1..n -> ParLines]} : n \in BlockLens}

\* l.startswith('C')
StartsWithC(l) == l.c

\* The copy loop as a slip would write it: the first line of every block
\* is dropped as its header, whatever it is.
NonCLines_dropFirst(ls) == IF ls = <<>> THEN <<>> ELSE Tail(ls)

\* for l in f2: if not l.startswith('C'): f1.write(l)
NonCLines(ls) == SelectSeq(ls, LAMBDA l : ~StartsWithC(l))

\* What a block contributes to the merged file.
BlockRows(ls) == NonCLines(ls)

\* for block in range(1, numberOfBlocks + 1): raise on the first absent
\* block; else append its rows to f1 and delete it (cleanPattern).
RECURSIVE MergeLoop(_, _, _, _)
MergeLoop(block, n, out, files) ==
    IF block > n
    THEN [out |-> File(out), files |-> files, err |-> 0]
    ELSE IF ~files[block].exists
         THEN [out |-> File(out), files |-> files, err |-> block]
         ELSE MergeLoop(block + 1, n, out \o BlockRows(files[block].lines),
                        [files EXCEPT ![block] = Absent])

\* The loop as a slip would write it: blocks visited from the last to the
\* first.
RECURSIVE MergeLoopDown(_, _, _, _)
MergeLoopDown(block, n, out, files) ==
    IF block < 1
    THEN [out |-> File(out), files |-> files, err |-> 0]
    ELSE IF ~files[block].exists
         THEN [out |-> File(out), files |-> files, err |-> block]
         ELSE MergeLoopDown(block - 1, n, out \o BlockRows(files[block].lines),
                            [files EXCEPT ![block] = Absent])

mergeAllParFiles_reversed(n, files, out) ==
    IF n # 1
    THEN MergeLoopDown(n, n, <<CLine>>, files)
    ELSE IF files[1].exists
         THEN [out |-> files[1], files |-> [files EXCEPT ![1] = Absent], err |-> 0]
         ELSE [out |-> out, files |-> files, err |-> 1]

\* _mergeAllParFiles(iterN, numberOfBlocks): the merged file, the block
\* files left behind and the block named by the error raised (0: none).
\* With several blocks outFn is opened for writing and gets the header
\* before the first block is looked at; with one block the block file is
\* moved (moveFile raises on an absent source and creates nothing).
_mergeAllParFiles(n, files, out) ==
    IF n # 1
    THEN MergeLoop(1, n, <<CLine>>, files)
    ELSE IF files[1].exists
         THEN [out |-> files[1], files |-> [files EXCEPT ![1] = Absent], err |-> 0]
         ELSE [out |-> out, files |-> files, err |-> 1]

\* The refine jobs of the iteration are over; the merged file of the
\* iteration does not exist yet.
MergeInit ==
    /\ numberOfBlocks \in 1..MaxBlocks
    /\ blockFiles \in [1..numberOfBlocks -> BlockFileValues]
    /\ blocksAtCall = blockFiles
    /\ outFile = Absent
    /\ mergeErr = 0
    /\ mergePc = "call"

\* The merge at rest, for the specifications of other components.
MergeIdle ==
    /\ numberOfBlocks = 1
    /\ blockFiles = <<Absent>>
    /\ blocksAtCall = <<Absent>>
    /\ outFile = Absent
    /\ mergeErr = 0
    /\ mergePc = "idle"

\* One call of _mergeAllParFiles.
CallMergeAllParFiles ==
    /\ mergePc = "call"
    /\ LET r == _mergeAllParFiles(numberOfBlocks, blockFiles, outFile)
       IN  /\ outFile' = r.out
           /\ blockFiles' = r.files
           /\ mergeErr' = r.err
           /\ mergePc' = IF r.err = 0 THEN "returned" ELSE "raised"
    /\ UNCHANGED <<numberOfBlocks, blocksAtCall>>

MergeNext == CallMergeAllParFiles

(***************************************************************************)
(* Alignment parameter file codec: text of the rows                        *)
(*                                                                         *)
(* A line is the sequence of its characters, without the newline.  The     *)
(* floats written are fixed-point integers counted in 1/1000; '%W.Pf'      *)
(* rounds to P decimals (ties to even) and float() reads a decimal token   *)
(* back to 1/1000.                                                         *)
(***************************************************************************)
HEADER_COLUMNS ==
    <<"INDEX", "PSI", "THETA", "PHI", "SHX", "SHY", "MAG", "FILM", "DF1", "DF2",
      "ANGAST", "PSHIFT", "OCC", "LogP", "SIGMA", "SCORE", "CHANGE">>

\* The header line writeInitParStep and _mergeAllParFiles write.
HeaderLine ==
    << "C", " ", " ", " ", " ", " ", " ", " ", " ", " ", " ", " ",
    "P", "S", "I", " ", " ", " ", "T", "H", "E", "T", "A", " ",
    " ", " ", " ", " ", "P", "H", "I", " ", " ", " ", " ", " ",
    " ", " ", "S", "H", "X", " ", " ", " ", " ", " ", " ", " ",
    "S", "H", "Y", " ", " ", " ", " ", " ", "M", "A", "G", " ",
    " ", "F", "I", "L", "M", " ", " ", " ", " ", " ", " ", "D",
    "F", "1", " ", " ", " ", " ", " ", " ", "D", "F", "2", " ",
    " ", "A", "N", "G", "A", "S", "T", " ", " ", "P", "S", "H",
    "I", "F", "T", " ", " ", " ", " ", " ", "O", "C", "C", " ",
    " ", " ", " ", " ", " ", "L", "o", "g", "P", " ", " ", " ",
    " ", " ", " ", "S", "I", "G", "M", "A", " ", " ", " ", "S",
    "C", "O", "R", "E", " ", " ", "C", "H", "A", "N", "G", "E" >>

DigitChars == <<"0", "1", "2", "3", "4", "5", "6", "7", "8", "9">>

DigitChar(d) == DigitChars[d + 1]

IsDigit(ch) == \E d \in 0..9 : ch = DigitChar(d)

DigitOf(ch) == CHOOSE d \in 0..9 : ch = DigitChar(d)

RECURSIVE Pow10(_)
Pow10(p) == IF p = 0 THEN 1 ELSE 10 * Pow10(p - 1)

\* The decimal digits of n >= 0.
RECURSIVE Digits(_)
Digits(n) == IF n < 10 THEN <<DigitChar(n)>> ELSE Digits(n \div 10) \o <<DigitChar(n % 10)>>

\* The last k decimal digits of n >= 0, with leading zeros.
RECURSIVE PadDigits(_, _)
PadDigits(n, k) == IF k = 0 THEN <<>> ELSE PadDigits(n \div 10, k - 1) \o <<DigitChar(n % 10)>>

Abs(x) == IF x < 0 THEN -x ELSE x

\* num / den rounded to the nearest integer, ties to even (num >= 0, den > 0)
RoundHalfEven(num, den) ==
    LET q == num \div den
        r == num % den
    IN  IF 2 * r > den THEN q + 1
        ELSE IF 2 * r < den THEN q
        ELSE IF q % 2 = 0 THEN q ELSE q + 1

\* Right-justify in a field of the given width; a longer text is kept whole.
LeftPad(text, width) ==
    IF Len(text) >= width THEN text
    ELSE [k \in 1..(width - Len(text)) |-> " "] \o text

\* '%<width>d' % n
FmtD(n, width) ==
    LeftPad((IF n < 0 THEN <<"-">> ELSE <<>>) \o Digits(Abs(n)), width)

\* The text of '%.<prec>f' % x, x counted in 1/1000.
FloatText(x, prec) ==
    LET scaled == IF prec <= 3 THEN RoundHalfEven(Abs(x), Pow10(3 - prec))
                  ELSE Abs(x) * Pow10(prec - 3)
    IN  (IF x < 0 THEN <<"-">> ELSE <<>>)
        \o Digits(scaled \div Pow10(prec)) \o <<".">> \o PadDigits(scaled % Pow10(prec), prec)

\* '%<width>.<prec>f' % x
FmtF(x, width, prec) == LeftPad(FloatText(x, prec), width)

\* Positions of the non-blank characters of a line.
NonBlank(line) == {k \in 1..Len(line) : line[k] # " "}

SetMin(S) == CHOOSE x \in S : \A y \in S : x <= y

SetMax(S) == CHOOSE x \in S : \A y \in S : x >= y

\* line.strip()
Strip(line) ==
    IF NonBlank(line) = {} THEN <<>>
    ELSE SubSeq(line, SetMin(NonBlank(line)), SetMax(NonBlank(line)))

\* line.startswith('C')
LineStartsWithC(line) == line # <<>> /\ Head(line) = "C"

\* line.split(): the maximal runs of non-blank characters, in order
Split(line) ==
    LET starts == {k \in NonBlank(line) : k = 1 \/ line[k - 1] = " "}
        ends == {k \in NonBlank(line) : k = Len(line) \/ line[k + 1] = " "}
        nth(S, j) == CHOOSE x \in S : Cardinality({y \in S : y < x}) = j - 1
    IN  [j \in 1..Cardinality(starts) |-> SubSeq(line, nth(starts, j), nth(ends, j))]

\* The value of a run of digits.
RECURSIVE DigitsValue(_)
DigitsValue(ds) ==
    IF ds = <<>> THEN 0 ELSE 10 * DigitsValue(SubSeq(ds, 1, Len(ds) - 1)) + DigitOf(ds[Len(ds)])

AllDigits(ds) == \A k \in 1..Len(ds) : IsDigit(ds[k])

\* Position of the first '.' of a token, 0 when it has none.
DotAt(tok) ==
    IF \E k \in 1..Len(tok) : tok[k] = "."
    THEN CHOOSE k \in 1..Len(tok) : tok[k] = "." /\ \A j \in 1..(k - 1) : tok[j] # "."
    ELSE 0

\* float() on an unsigned decimal whose point is at position dot (0 when
\* it has none).
ParseUnsigned(body, dot) ==
    LET ip == IF dot = 0 THEN body ELSE SubSeq(body, 1, dot - 1)
        fp == IF dot = 0 THEN <<>> ELSE SubSeq(body, dot + 1, Len(body))
    IN  IF AllDigits(ip) /\ AllDigits(fp) /\ Len(ip) + Len(fp) > 0
        THEN [ok |-> TRUE,
              v |-> DigitsValue(ip) * 1000
                    + DigitsValue(SubSeq(fp \o <<"0", "0", "0">>, 1, 3))]
        ELSE [ok |-> FALSE, v |-> 0]

\* The parsed value with its sign changed.
Negated(f) == [f EXCEPT !.v = -f.v]

\* float(tok) on a token of digits, sign and point: the value in 1/1000
\* (decimals after the third are dropped), or ok = FALSE for ValueError.
ParseFloat(tok) ==
    IF tok # <<>> /\ Head(tok) = "-"
    THEN Negated(ParseUnsigned(Tail(tok), DotAt(Tail(tok))))
    ELSE ParseUnsigned(tok, DotAt(tok))

(***************************************************************************)
(* Alignment parameter file codec: writeInitParStep, FrealignParFile,       *)
(* readSetOfParticles, _iterRows and _updateParticle                        *)
(*                                                                         *)
(* A Transform is kept as the geometry its matrix stands for: the angles   *)
(* <<PSI, THETA, PHI>> in the order rowToAlignment hands them to           *)
(* matrixFromGeometry, and the shifts.  A rotation without tilt is one     *)
(* in-plane rotation: euler_from_matrix returns it in the first angle and  *)
(* 0 in the third.                                                         *)
(***************************************************************************)
\* Largest number of input particles.
MaxParts == 2

\* Pixel size of the input set, in 1/1000 A.
SamplingRates == {1000, 2000}

MicIds == {1, 2}

\* CTFs of the input particles (1/1000 A, 1/1000 degree): a third decimal
\* that the format rounds away and a phase shift; a defocus as wide as its
\* field; the record of a failed estimation, without phase shift.
CtfValues ==
    { [defocusU |-> 20000000, defocusV |-> 19500049, defocusAngle |-> 45678,
       phaseShift |-> Val(10000)],
      [defocusU |-> 1000000000, defocusV |-> 999999949, defocusAngle |-> 90000,
       phaseShift |-> Val(0)],
      [defocusU |-> -999000, defocusV |-> -1000, defocusAngle |-> -999000,
       phaseShift |-> Unset] }

\* transformations.euler_matrix / inv: the matrix of a geometry, kept as the
\* geometry euler_from_matrix finds in it.
matrixFromGeometry(shifts, angles) ==
    [shifts |-> shifts,
     angles |-> IF angles[2] = 0 THEN <<angles[1] + angles[3], 0, 0>> ELSE angles]

\* geometryFromMatrix(matrix): shifts and angles
geometryFromMatrix(matrix) == [shifts |-> matrix.shifts, angles |-> matrix.angles]

\* Prior alignments: an in-plane rotation of 30 degrees (2D alignment), a
\* projection alignment with three angles.
TransformValues ==
    { matrixFromGeometry(<<0, 0>>, <<30000, 0, 0>>),
      matrixFromGeometry(<<0, 0>>, <<12340, 20000, -179995>>) }

ParticleValues ==
    [micId : MicIds, ctf : CtfValues, transform : TransformValues]

\* iterItems(orderBy=['_micId', 'id'], direction='ASC'): the ids (positions
\* in inputParticles) in that order.
MicIdOrder(parts) ==
    LET before(a, b) == \/ parts[a].micId < parts[b].micId
                        \/ (parts[a].micId = parts[b].micId /\ a < b)
    IN  [k \in 1..Len(parts) |->
            CHOOSE a \in 1..Len(parts) :
                Cardinality({b \in 1..Len(parts) : before(b, a)}) = k - 1]

\* The iteration as a slip would write it: the set's own (id) order.
MicIdOrder_byId(parts) == [k \in 1..Len(parts) |-> k]

\* writeParticlesByMic: writeStack(orderBy=['_micId', 'id']), the ids of
\* the particles in the order of their images in the stack
writeParticlesByMic(parts) == MicIdOrder(parts)

\* iterParticlesByMic: the ids of the input particles ordered by micrograph
iterParticlesByMic(parts) == MicIdOrder(parts)

\* _, angles = geometryFromMatrix(...); psi = angles[2]   (0-based index)
PsiOfParticle(part, hasAlign) ==
    IF hasAlign THEN geometryFromMatrix(part.transform).angles[3] ELSE 0

\* ctf.getPhaseShift() or 0.00
PhaseShiftOr0(ctf) == IF ctf.phaseShift.set THEN ctf.phaseShift.v ELSE 0

\* The row format of writeInitParStep
\* '%7d%8.2f%8.2f%8.2f%10.2f%10.2f%8d%6d%9.1f%9.1f%8.2f%8.2f%8.2f%10d%11.4f%8.2f%8.2f'
\* on the 17 values v of one row.
FormatRow(v) ==
    FmtD(v[1], 7) \o FmtF(v[2], 8, 2) \o FmtF(v[3], 8, 2) \o FmtF(v[4], 8, 2)
    \o FmtF(v[5], 10, 2) \o FmtF(v[6], 10, 2) \o FmtD(v[7], 8) \o FmtD(v[8], 6)
    \o FmtF(v[9], 9, 1) \o FmtF(v[10], 9, 1)
    \o FmtF(v[11], 8, 2) \o FmtF(v[12], 8, 2) \o FmtF(v[13], 8, 2)
    \o FmtD(v[14], 10) \o FmtF(v[15], 11, 4) \o FmtF(v[16], 8, 2) \o FmtF(v[17], 8, 2)

\* The line writeInitParStep writes for the i-th particle (i counted from
\* 0): (i + 1, psi, 0., 0., 0., 0., 0, 0, defocusU, defocusV, astig,
\* phaseShift, 100., 0, 10., 0., 0.), floats in 1/1000.
InitParRow(i, part, hasAlign) ==
    FormatRow(<<i + 1, PsiOfParticle(part, hasAlign), 0, 0, 0, 0, 0, 0,
                part.ctf.defocusU, part.ctf.defocusV, part.ctf.defocusAngle,
                PhaseShiftOr0(part.ctf), 100000, 0, 10000, 0, 0>>)

\* writeInitParStep: the header, then one row per particle of
\* iterParticlesByMic.
writeInitParStep(parts, hasAlign) ==
    LET order == iterParticlesByMic(parts)
    IN  File(<<HeaderLine>>
             \o [k \in 1..Len(parts) |-> InitParRow(k - 1, parts[order[k]], hasAlign)])

\* The reader as a slip would write it: the fields are zipped against the
\* header columns without the index column.
RowDict_noIndex(line) ==
    LET toks == Split(Strip(line))
        m == IF Len(toks) < 16 THEN Len(toks) ELSE 16
    IN  [c \in {HEADER_COLUMNS[k + 1] : k \in 1..m} |->
            toks[CHOOSE k \in 1..m : HEADER_COLUMNS[k + 1] = c]]

\* FrealignParFile.__iter__ on one line: OrderedDict(zip(HEADER_COLUMNS,
\* line.split())), a dict of the first min(17, number of fields) columns.
RowDict(line) ==
    LET toks == Split(Strip(line))
        m == IF Len(toks) < 17 THEN Len(toks) ELSE 17
    IN  [c \in {HEADER_COLUMNS[k] : k \in 1..m} |->
            toks[CHOOSE k \in 1..m : HEADER_COLUMNS[k] = c]]

\* FrealignParFile.__iter__: one dict per line that, stripped, does not
\* start with 'C'.
FrealignParFile(lines) ==
    LET data == SelectSeq(lines, LAMBDA l : ~LineStartsWithC(Strip(l)))
    IN  [k \in 1..Len(data) |-> RowDict(data[k])]

\* The outcome of float() on a parsed token.
FloatOf(f) ==
    IF f.ok THEN [err |-> "none", v |-> f.v] ELSE [err |-> "ValueError", v |-> 0]

\* float(row.get(key)): TypeError on a missing key (float(None)),
\* ValueError on a token float() cannot read.
GetFloat(row, key) ==
    IF key \notin DOMAIN row THEN [err |-> "TypeError", v |-> 0]
    ELSE FloatOf(ParseFloat(row[key]))

\* The position of the first conversion that raises, Len(rs) + 1 when
\* all succeed.
FirstErrAt(rs) ==
    IF \A k \in 1..Len(rs) : rs[k].err = "none" THEN Len(rs) + 1
    ELSE CHOOSE k \in 1..Len(rs) :
            rs[k].err # "none" /\ \A j \in 1..(k - 1) : rs[j].err = "none"

\* The first error of a sequence of conversions, "none" when all succeed.
FirstErr(rs) ==
    IF \A k \in 1..Len(rs) : rs[k].err = "none" THEN "none"
    ELSE rs[FirstErrAt(rs)].err

\* The Transform of rowToAlignment from its five floats <<PSI, THETA, PHI,
\* SHX, SHY>>.  Shifts go from Angstrom to pixels.
AlignmentOf(fs, samplingRate) ==
    [err |-> FirstErr(fs),
     transform |-> matrixFromGeometry(
                      <<Rat(fs[4].v * 1000, samplingRate), Rat(fs[5].v * 1000, samplingRate)>>,
                      <<fs[1].v, fs[2].v, fs[3].v>>)]

\* rowToAlignment(alignmentRow, samplingRate): the Transform, or the error
\* of the first float() that raises.
rowToAlignment(row, samplingRate) ==
    AlignmentOf(<<GetFloat(row, "PSI"), GetFloat(row, "THETA"), GetFloat(row, "PHI"),
                  GetFloat(row, "SHX"), GetFloat(row, "SHY")>>, samplingRate)

\* The CTF model with the defocus values of the standardised model m.
WithDefocus(ctf, m) ==
    [ctf EXCEPT !.defocusU = m.defocusU.v, !.defocusV = m.defocusV.v,
                !.defocusAngle = m.defocusAngle.v]

\* The CTF model of rowToCtfModel from its three floats <<DF1, DF2, ANGAST>>.
CtfOf(fs, ctf) ==
    [err |-> FirstErr(fs),
     ctf |-> WithDefocus(ctf,
                 setStandardDefocusIn([defocusU |-> Unset, defocusV |-> Unset,
                                       defocusAngle |-> Unset],
                                      fs[1].v, fs[2].v, fs[3].v, 1000))]

\* rowToCtfModel(ctfRow, ctfModel): the model with the standard defocus of
\* DF1, DF2, ANGAST, or the error of the first float() that raises.
rowToCtfModel(row, ctf) ==
    CtfOf(<<GetFloat(row, "DF1"), GetFloat(row, "DF2"), GetFloat(row, "ANGAST")>>, ctf)

\* A loop over items that ends at the first exception: the error and the
\* items appended before it.
LoopUntil(items, n) ==
    [err |-> IF n > Len(items) THEN "none" ELSE items[n].err,
     out |-> [k \in 1..(n - 1) |-> items[k].item]]

\* The body of the loop of readSetOfParticles for one particle: the
\* particle with the transform and CTF of its row.
ReadItem(part, id, al, cm) ==
    [err |-> IF al.err # "none" THEN al.err ELSE cm.err,
     item |-> [id |-> id, micId |-> part.micId, transform |-> al.transform,
               ctf |-> cm.ctf, classId |-> Unset]]

\* for particle, row in zip(partIter, parFile): one item per pair.
ReadItems(parts, order, rows, samplingRate) ==
    [k \in 1..(IF Len(parts) < Len(rows) THEN Len(parts) ELSE Len(rows)) |->
        ReadItem(parts[order[k]], order[k], rowToAlignment(rows[k], samplingRate),
                 rowToCtfModel(rows[k], parts[order[k]].ctf))]

\* The loop of readSetOfParticles, ended by the first exception.
ReadLoop(items) == LoopUntil(items, FirstErrAt(items))

\* readSetOfParticles: for particle, row in zip(partIter, parFile): set
\* the transform and the CTF from the row and append to the output set.
readSetOfParticles(parts, lines, samplingRate) ==
    ReadLoop(ReadItems(parts, MicIdOrder(parts), FrealignParFile(lines), samplingRate))

\* _iterRows: for each line that does not start with "C", the floats of
\* its fields; _updateParticle zips them against HEADER_COLUMNS, which
\* evaluates float() on the first min(17, number of fields) fields.
IterRows(lines) ==
    LET data == SelectSeq(lines, LAMBDA l : ~LineStartsWithC(l))
    IN  [k \in 1..Len(data) |-> RowDict(data[k])]

\* The floats of _iterRows for one row, in column order.
RowFloats(row) ==
    [k \in 1..Cardinality(DOMAIN row) |-> GetFloat(row, HEADER_COLUMNS[k])]

\* The particle of _updateParticle from the floats of its row.
UpdatedItem(part, id, conv, al, film) ==
    IF FirstErr(conv) # "none" THEN [err |-> FirstErr(conv), item |-> part]
    ELSE [err |-> al.err,
          item |-> [id |-> id, micId |-> part.micId, transform |-> al.transform,
                    ctf |-> part.ctf,
                    classId |-> IF film.err = "none" THEN Val(film.v) ELSE Unset]]

\* _updateParticle(item, row): class id from FILM (None when the row has
\* no such field), transform from the row.
updateParticle(part, id, row, samplingRate) ==
    UpdatedItem(part, id, RowFloats(row), rowToAlignment(row, samplingRate),
                GetFloat(row, "FILM"))

\* classifyItems over the particles in (_micId, id) order and the rows of
\* _iterRows: one item per pair.
FillItems(parts, order, rows, samplingRate) ==
    [k \in 1..(IF Len(parts) < Len(rows) THEN Len(parts) ELSE Len(rows)) |->
        updateParticle(parts[order[k]], order[k], rows[k], samplingRate)]

\* The loop of classifyItems, ended by the first exception.
FillLoop(items) == LoopUntil(items, FirstErrAt(items))

fillClassesFromIter(parts, lines, samplingRate) ==
    FillLoop(FillItems(parts, MicIdOrder(parts), IterRows(lines), samplingRate))

\* The protocol holds its input particles; nothing is written yet.
ParInit ==
    /\ \E n \in 1..MaxParts : inputParticles \in [1..n -> ParticleValues]
    /\ hasAlignment \in BOOLEAN
    /\ parFile = Absent
    /\ parRows = <<>>
    /\ outputSet = <<>>
    /\ parErr = "none"
    /\ parPc = "convert"
    /\ parStack = <<>>

\* The codec at rest, for the specifications of other components.
ParIdle ==
    /\ inputParticles = <<>>
    /\ hasAlignment = FALSE
    /\ parFile = Absent
    /\ parRows = <<>>
    /\ outputSet = <<>>
    /\ parErr = "none"
    /\ parPc = "idle"
    /\ parStack = <<>>

\* convertInputStep: writeParticlesByMic writes the stack.
ConvertInputStep ==
    /\ parPc = "convert"
    /\ parStack' = writeParticlesByMic(inputParticles)
    /\ parPc' = "write"
    /\ UNCHANGED <<inputParticles, hasAlignment, parFile, parRows, outputSet, parErr>>

\* writeInitParStep
WriteInitParStep ==
    /\ parPc = "write"
    /\ parFile' = writeInitParStep(inputParticles, hasAlignment)
    /\ parPc' = "written"
    /\ UNCHANGED <<inputParticles, hasAlignment, parRows, outputSet, parErr, parStack>>

\* readSetOfParticles(inputSet, outputSet, parFileName) on the file written
ReadSetOfParticles ==
    /\ parPc = "written"
    /\ \E sr \in SamplingRates :
         \E r \in {readSetOfParticles(inputParticles, parFile.lines, sr)} :
             /\ outputSet' = r.out
             /\ parErr' = r.err
    /\ parRows' = FrealignParFile(parFile.lines)
    /\ parPc' = "read"
    /\ UNCHANGED <<inputParticles, hasAlignment, parFile, parStack>>

\* _fillClassesFromIter on the file written (a run of one iteration)
FillClassesFromIter ==
    /\ parPc = "written"
    /\ \E sr \in SamplingRates :
         \E r \in {fillClassesFromIter(inputParticles, parFile.lines, sr)} :
             /\ outputSet' = r.out
             /\ parErr' = r.err
    /\ parRows' = IterRows(parFile.lines)
    /\ parPc' = "filled"
    /\ UNCHANGED <<inputParticles, hasAlignment, parFile, parStack>>

ParNext ==
    \/ ConvertInputStep
    \/ WriteInitParStep
    \/ ReadSetOfParticles
    \/ FillClassesFromIter

(***************************************************************************)
(* Steps of a refine2d run: _insertAllSteps and their execution             *)
(*                                                                         *)
(* A step inserted without prerequisites waits for the step inserted       *)
(* before it; a step starts when all its prerequisites have finished, and  *)
(* no step starts after one has failed.                                    *)
(***************************************************************************)
\* Largest numberOfIterations of a run.
MaxIterations == 3

\* Largest numberOfThreads and numberOfMpi.
MaxJobs == 3

\* jobs of _getJobsParams: max(numberOfThreads, numberOfMpi)
JobsOf(threads, mpi) == IF threads > mpi THEN threads ELSE mpi

\* A step: its function, its iteration and job arguments (0 where the
\* function has none), the ids of its prerequisites.
Step(funcName, iterN, job, prerequisites) ==
    [funcName |-> funcName, iterN |-> iterN, job |-> job,
     prerequisites |-> prerequisites]

\* A step inserted without prerequisites that waits for no step.
DefaultPrerequisites_none(inserted) == {}

\* prerequisites=None: the step inserted last, if any.
DefaultPrerequisites(inserted) == IF inserted = <<>> THEN {} ELSE {Len(inserted)}

\* _insertFunctionStep(funcName, ...) without prerequisites
insertFunctionStep(inserted, funcName, iterN, job) ==
    Append(inserted, Step(funcName, iterN, job, DefaultPrerequisites(inserted)))

\* _insertFunctionStep(funcName, ..., prerequisites=prerequisites)
insertFunctionStepAfter(inserted, funcName, iterN, job, prerequisites) ==
    Append(inserted, Step(funcName, iterN, job, prerequisites))

\* for job in range(1, jobs + 1): insert refineStep(iterN, job, ...)
RECURSIVE InsertRefineJobs(_, _, _, _)
InsertRefineJobs(inserted, iterN, job, jobs) ==
    IF job > jobs THEN inserted
    ELSE InsertRefineJobs(insertFunctionStep(inserted, "refineStep", iterN, job),
                          iterN, job + 1, jobs)

\* _insertRefineIterStep: the steps after the insertion.
insertRefineIterStep(inserted, iterN, jobs) ==
    IF iterN = 1
    THEN insertFunctionStepAfter(
             insertFunctionStep(inserted, "writeInitParStep", 1, 0),
             "makeInitClassesStep", 1, 0, {Len(inserted) + 1})
    ELSE InsertRefineJobs(inserted, iterN, 1, jobs)

\* depsRefine of _insertRefineIterStep: the id of makeInitClassesStep for
\* iteration 1, the ids of all refineStep jobs otherwise.
depsRefine(inserted, iterN, jobs) ==
    IF iterN = 1 THEN {Len(inserted) + 2}
    ELSE (Len(inserted) + 1)..(Len(inserted) + jobs)

\* A merge step inserted without prerequisites of its own.
MergePrerequisites_none(deps) == {}

\* prerequisites=depsRefine of the mergeStep
MergePrerequisites(deps) == deps

\* _insertItersSteps, the loop over _allItersN: range(initIter, finalIter)
RECURSIVE InsertIters(_, _, _, _)
InsertIters(inserted, iterN, finalIter, jobs) ==
    IF iterN >= finalIter THEN inserted
    ELSE InsertIters(
             IF iterN > 1
             THEN insertFunctionStepAfter(
                      insertRefineIterStep(inserted, iterN, jobs), "mergeStep", iterN, 0,
                      MergePrerequisites(depsRefine(inserted, iterN, jobs)))
             ELSE insertRefineIterStep(inserted, iterN, jobs),
             iterN + 1, finalIter, jobs)

\* _insertContinueStep: continueStep(initIter) of a continued run.
insertContinueStep(doContinue, initIter) ==
    IF doContinue THEN insertFunctionStep(<<>>, "continueStep", initIter, 0) ELSE <<>>

\* _insertAllSteps: continue step, convertInputStep, the steps of the
\* iterations initIter..finalIter - 1, createOutputStep.
insertAllSteps(doContinue, initIter, numberOfIterations, jobs) ==
    insertFunctionStep(
        InsertIters(insertFunctionStep(insertContinueStep(doContinue, initIter),
                                       "convertInputStep", 0, 0),
                    initIter, initIter + numberOfIterations, jobs),
        "createOutputStep", 0, 0)

\* A new run or a run continued from iteration 2 or 3; every step is new.
StepsInit ==
    /\ numberOfThreads \in 1..MaxJobs
    /\ numberOfMpi \in 1..MaxJobs
    /\ \E doContinue \in BOOLEAN, numberOfIterations \in 1..MaxIterations :
         \E initIter \in (IF doContinue THEN {2, 3} ELSE {1}) :
             steps = insertAllSteps(doContinue, initIter, numberOfIterations,
                                    JobsOf(numberOfThreads, numberOfMpi))
    /\ stepStatus = [i \in 1..Len(steps) |-> "new"]

\* No run, for the specifications of other components.
StepsIdle ==
    /\ numberOfThreads = 1
    /\ numberOfMpi = 1
    /\ steps = <<>>
    /\ stepStatus = <<>>

\* The executor starts a new step whose prerequisites have all finished.
StartStep(i) ==
    /\ stepStatus[i] = "new"
    /\ \A j \in steps[i].prerequisites : stepStatus[j] = "finished"
    /\ \A j \in 1..Len(steps) : stepStatus[j] # "failed"
    /\ stepStatus' = [stepStatus EXCEPT ![i] = "running"]
    /\ UNCHANGED <<numberOfThreads, numberOfMpi, steps>>

\* A running step returns.
FinishStep(i) ==
    /\ stepStatus[i] = "running"
    /\ stepStatus' = [stepStatus EXCEPT ![i] = "finished"]
    /\ UNCHANGED <<numberOfThreads, numberOfMpi, steps>>

\* A running step raises.
FailStep(i) ==
    /\ stepStatus[i] = "running"
    /\ stepStatus' = [stepStatus EXCEPT ![i] = "failed"]
    /\ UNCHANGED <<numberOfThreads, numberOfMpi, steps>>

StepsNext ==
    \E i \in 1..Len(steps) : StartStep(i) \/ FinishStep(i) \/ FailStep(i)

(***************************************************************************)
(* High-resolution limit of a refine job: _calcHighResLimit as refineStep  *)
(* calls it                                                                *)
(***************************************************************************)
\* Largest finalIter of a run.
MaxFinalIter == 41

\* Start and end limits (highResLimit1, highResLimit2), in Angstrom.
HighRes1Values == {40, 20}
HighRes2Values == {8, 6}

RAdd(a, b) == Rat(a[1] * b[2] + b[1] * a[2], a[2] * b[2])

RMul(a, b) == Rat(a[1] * b[1], a[2] * b[2])

\* a / b for b # 0
RDiv(a, b) == IF b[1] < 0 THEN Rat(-(a[1] * b[2]), a[2] * (-b[1]))
              ELSE Rat(a[1] * b[2], a[2] * b[1])

\* reachMaxHighResAtCycle
ReachMaxHighResAtCycle(iter_total) ==
    IF iter_total >= 4 THEN Rat(iter_total * 3, 4) ELSE Rat(iter_total, 1)

\* highRes1 + iter_total / (reachMaxHighResAtCycle - 1) * (highRes2 - highRes1)
HighResRamp(iter_total, highRes1, highRes2) ==
    RAdd(Rat(highRes1, 1),
         RMul(RDiv(Rat(iter_total, 1),
                   RAdd(ReachMaxHighResAtCycle(iter_total), Rat(-1, 1))),
              Rat(highRes2 - highRes1, 1)))

\* iter_total >= reachMaxHighResAtCycle
ReachedCycle(iter_total) ==
    ~RLess(Rat(iter_total, 1), ReachMaxHighResAtCycle(iter_total))

\* _calcHighResLimit(iter_total, highRes1, highRes2)
_calcHighResLimit(iter_total, highRes1, highRes2) ==
    IF iter_total > 1
    THEN IF ReachedCycle(iter_total) THEN Rat(highRes2, 1)
         ELSE HighResRamp(iter_total, highRes1, highRes2)
    ELSE Rat(highRes2, 1)

\* The arguments of one refineStep: its iteration iterN, the finalIter and
\* the two limits of the run.
ResArgsSet ==
    {a \in [iterN : 1..MaxFinalIter, finalIter : 1..MaxFinalIter,
            highResLimit1 : HighRes1Values, highResLimit2 : HighRes2Values] :
        a.iterN <= a.finalIter}

\* refineStep has not computed its limit yet.
ResInit ==
    /\ resArgs \in ResArgsSet
    /\ resPc = "call"
    /\ resRet = Rat(0, 1)

\* No refineStep, for the specifications of other components.
ResIdle ==
    /\ resArgs = [iterN |-> 1, finalIter |-> 1, highResLimit1 |-> 40, highResLimit2 |-> 8]
    /\ resPc = "idle"
    /\ resRet = Rat(0, 1)

\* highRes = self._calcHighResLimit(self.finalIter, highResLimit1, highResLimit2)
CallCalcHighResLimit ==
    /\ resPc = "call"
    /\ resPc' = "returned"
    /\ resRet' = _calcHighResLimit(resArgs.finalIter, resArgs.highResLimit1,
                                   resArgs.highResLimit2)
    /\ UNCHANGED resArgs

(***************************************************************************)
(* Rotational average file: parseCtffindOutput(filename, avrot=True)        *)
(*                                                                         *)
(* A file is a sequence of rows of cells; spatial frequencies and          *)
(* amplitudes are counted in 1/100.                                        *)
(***************************************************************************)
\* Largest number of 6-line blocks of a file.
MaxAvrotBlocks == 2

\* Line 0 of a block, the frequency axis: below, at the lower end of, at
\* the upper end of and above the band [0.25, 0.28].
AvrotFreqRows == {<<Num(f1), Num(f2)>> : f1 \in {24, 25}, f2 \in {28, 29}}

\* Line 1 of a block, the amplitudes.
AvrotAmpRows == {<<a1, a2>> : a1 \in {Num(-3), NaN}, a2 \in {Num(2), NaN}}

\* Lines 2..5 of a block.
AvrotRestRows == <<<<Num(1), Num(1)>>, <<Num(1), Num(1)>>, <<Num(1), Num(1)>>,
                   <<Num(1), Num(1)>>>>

\* A block of 6 lines.
AvrotBlocks == {<<f, a>> \o AvrotRestRows : f \in AvrotFreqRows, a \in AvrotAmpRows}

\* The lines of a sequence of blocks, one after the other.
Flatten(bs) == [k \in 1..(6 * Len(bs)) |-> bs[((k - 1) \div 6) + 1][((k - 1) % 6) + 1]]

\* The files drawn: absent, whole blocks, and one file cut short by a line.
AvrotFiles ==
    {Absent}
    \cup UNION {{File(Flatten(bs)) : bs \in [1..n -> AvrotBlocks]} : n \in 1..MaxAvrotBlocks}
    \cup {File(SubSeq(Flatten(<<b>>), 1, 5)) : b \in AvrotBlocks}

\* The band as a slip would write it: open at its upper end.
InBand_open(c) == ~c.nan /\ c.v >= 25 /\ c.v < 28

\* mask: line 0 >= 0.25 and line 0 <= 0.28 (false for NaN)
InBand(c) == ~c.nan /\ c.v >= 25 /\ c.v <= 28

\* np.abs(line 1) * mask, one term per column: NaN stays NaN under the mask.
MaskedAbs(freq, amp) ==
    [k \in 1..Len(amp) |->
        IF amp[k].nan THEN NaN
        ELSE Num(IF InBand(freq[k]) THEN Abs(amp[k].v) ELSE 0)]

\* np.sum over the terms of one block: NaN when a term is NaN.
RECURSIVE SumCells(_)
SumCells(cs) ==
    IF cs = <<>> THEN Num(0)
    ELSE IF Head(cs).nan \/ SumCells(Tail(cs)).nan THEN NaN
    ELSE Num(Head(cs).v + SumCells(Tail(cs)).v)

\* reshape(-1, 6, result.shape[1]) and the masked sum of every block
AvrotSums(rows) ==
    [b \in 1..(Len(rows) \div 6) |->
        SumCells(MaskedAbs(rows[6 * (b - 1) + 1], rows[6 * (b - 1) + 2]))]

\* parseCtffindOutput(filename, avrot=True): None for a missing file,
\* ValueError when the rows do not reshape into blocks of 6, else the sums.
parseAvrot(file) ==
    IF ~file.exists THEN [err |-> "none", none |-> TRUE, vals |-> <<>>]
    ELSE IF Len(file.lines) % 6 # 0 THEN [err |-> "ValueError", none |-> TRUE, vals |-> <<>>]
    ELSE [err |-> "none", none |-> FALSE, vals |-> AvrotSums(file.lines)]

\* The caller has named the file; the parser has not run yet.
AvrotInit ==
    /\ avrotFile \in AvrotFiles
    /\ avrotRet = [err |-> "none", none |-> TRUE, vals |-> <<>>]
    /\ avrotPc = "call"

\* No call, for the specifications of other components.
AvrotIdle ==
    /\ avrotFile = Absent
    /\ avrotRet = [err |-> "none", none |-> TRUE, vals |-> <<>>]
    /\ avrotPc = "idle"

\* One call of parseCtffindOutput(filename, avrot=True).
CallParseAvrot ==
    /\ avrotPc = "call"
    /\ avrotPc' = "returned"
    /\ avrotRet' = parseAvrot(avrotFile)
    /\ UNCHANGED avrotFile

(***************************************************************************)
(* CTF result file: parseCtffindOutput(filename) and readCtfModel           *)
(*                                                                         *)
(* A line of the result file is a comment or a row of tokens; bad marks a  *)
(* row with a token float() cannot read.                                   *)
(***************************************************************************)
\* Largest number of lines of a result file.
MaxResultLines == 3

CommentLine == [comment |-> TRUE, bad |-> FALSE, cells |-> <<>>]
DataLine(cells) == [comment |-> FALSE, bad |-> FALSE, cells |-> cells]
BadLine(cells) == [comment |-> FALSE, bad |-> TRUE, cells |-> cells]

\* The lines drawn: a comment, two results, a result with tomography
\* columns, a result with a NaN, a row of 5 columns, a row with an
\* unparsable token.
ResultLineValues ==
    { CommentLine,
      DataLine(<<Num(1), Num(5), Num(5), Num(3), Num(2), Num(1), Num(4)>>),
      DataLine(<<Num(2), Num(6), Num(5), Num(3), Num(0), Num(2), Num(4)>>),
      DataLine(<<Num(1), Num(5), Num(5), Num(3), Num(2), Num(1), Num(4),
                 Num(7), Num(8), Num(9)>>),
      DataLine(<<Num(1), Num(5), Num(5), NaN, Num(2), Num(1), Num(4)>>),
      DataLine(<<Num(9), Num(9), Num(9), Num(9), Num(9)>>),
      BadLine(<<Num(1), Num(5), Num(5), Num(3), Num(2), Num(1)>>) }

ResultFiles ==
    {Absent}
    \cup UNION {{File(ls) : ls \in [1..n -> ResultLineValues]} : n \in 0..MaxResultLines}

\* The companion file of one block whose band sum is 5.
SampleAvrotFile ==
    File(<<<<Num(25), Num(28)>>, <<Num(-3), Num(2)>>>> \o AvrotRestRows)

\* rotAvgFn: None, the name of a missing file, the name of the sample file.
RotAvgFnValues ==
    { [given |-> FALSE, file |-> Absent], [given |-> TRUE, file |-> Absent],
      [given |-> TRUE, file |-> SampleAvrotFile] }

NoneArray == [ndim |-> 0, rows |-> <<>>]

\* The array np.loadtxt makes of the rows: 1-D for no row (empty) and for
\* one row, 2-D for more.
ArrayOf(data) ==
    IF Len(data) = 0 THEN [ndim |-> 1, rows |-> <<<<>>>>]
    ELSE [ndim |-> IF Len(data) = 1 THEN 1 ELSE 2,
          rows |-> [k \in 1..Len(data) |-> data[k].cells]]

\* np.loadtxt(filename, dtype=float, comments='#') on the lines that are
\* not comments: ValueError on an unparsable token and on rows of different
\* numbers of columns.
LoadTxt(data) ==
    IF \E k \in 1..Len(data) :
          data[k].bad \/ Len(data[k].cells) + (IF data[k].bad THEN 1 ELSE 0)
                            # Len(data[1].cells) + (IF data[1].bad THEN 1 ELSE 0)
    THEN [err |-> "ValueError", arr |-> NoneArray]
    ELSE [err |-> "none", arr |-> ArrayOf(data)]

\* The parser as a slip would write it: a missing file raises.
parseCtffindOutput_raising(file) ==
    IF file.exists THEN LoadTxt(SelectSeq(file.lines, LAMBDA l : ~l.comment))
    ELSE [err |-> "FileNotFoundError", arr |-> NoneArray]

\* parseCtffindOutput(filename): the array, None for a missing file.
parseCtffindOutput(file) ==
    IF file.exists THEN LoadTxt(SelectSeq(file.lines, LAMBDA l : ~l.comment))
    ELSE [err |-> "none", arr |-> NoneArray]

\* rotAvgArray of readCtfModel: None unless rotAvgFn names a file that
\* parses, else the error of the parser.
RotAvgOf(fn, p) ==
    IF ~fn.given \/ p.none
    THEN [err |-> IF fn.given THEN p.err ELSE "none", some |-> FALSE, vals |-> <<>>]
    ELSE [err |-> p.err, some |-> TRUE, vals |-> p.vals]

\* readCtfModelStack indexes values[1], values[2] in its test and
\* values[1..6] for a valid row: IndexError on a row too short for that.
RaisesIndexError(a) ==
    IF ArrayIsNone(a) \/ AnyNaN(Values(a, 0)) THEN FALSE
    ELSE IF Len(Values(a, 0)) < 2 THEN TRUE
    ELSE IF Negative(Values(a, 0)[2]) THEN FALSE
    ELSE IF Len(Values(a, 0)) < 3 THEN TRUE
    ELSE IF Negative(Values(a, 0)[3]) THEN FALSE
    ELSE Len(Values(a, 0)) < 7

\* readCtfModel after both files are parsed.
ReadParsed(m, result, rot) ==
    IF result.err # "none" THEN [err |-> result.err, model |-> m]
    ELSE IF rot.err # "none" THEN [err |-> rot.err, model |-> m]
    ELSE IF RaisesIndexError(result.arr) THEN [err |-> "IndexError", model |-> m]
    ELSE [err |-> "none", model |-> readCtfModelStack(m, result.arr, rot, 0).model]

\* readCtfModel(ctfModel, ctfFn, rotAvgFn)
readCtfModel(m, file, fn) ==
    ReadParsed(m, parseCtffindOutput(file), RotAvgOf(fn, parseAvrot(fn.file)))

\* The caller holds a newly created model and has named the files.
FileInit ==
    /\ ctfFn \in ResultFiles
    /\ rotAvgFn \in RotAvgFnValues
    /\ parsedResult = [err |-> "none", arr |-> NoneArray]
    /\ fileModel = NewCtfModel
    /\ fileErr = "none"
    /\ filePc = "call"

\* No call, for the specifications of other components.
FileIdle ==
    /\ ctfFn = Absent
    /\ rotAvgFn = [given |-> FALSE, file |-> Absent]
    /\ parsedResult = [err |-> "none", arr |-> NoneArray]
    /\ fileModel = NewCtfModel
    /\ fileErr = "none"
    /\ filePc = "idle"

\* One call of readCtfModel on the named files.
CallReadCtfModel ==
    /\ filePc = "call"
    /\ filePc' = "returned"
    /\ parsedResult' = parseCtffindOutput(ctfFn)
    /\ \E r \in {readCtfModel(fileModel, ctfFn, rotAvgFn)} :
          /\ fileModel' = r.model
          /\ fileErr' = r.err
    /\ UNCHANGED <<ctfFn, rotAvgFn>>

(***************************************************************************)
(* Per-item steps: _doCtfEstimation, _pickMicrographStep, _processMovie     *)
(*                                                                         *)
(* A micrograph or movie is a record: input tells whether its input file   *)
(* exists, fails whether runJob raises for it, log what the program left   *)
(* of its log file: "absent", "plain" (no line starting with Error) or     *)
(* "error" (a line starting with Error).                                   *)
(***************************************************************************)
\* Largest number of micrographs of one picking step.
MaxMics == 3

LogValues == {"absent", "plain", "error"}

MicValues == [input : BOOLEAN, fails : BOOLEAN, log : LogValues]

\* The micrographs whose input file exists.
ReadableMics == {mic \in MicValues : mic.input}

\* The lists _pickMicrograph and _pickMicrographList hand to the step.
MicLists == UNION {[1..n -> ReadableMics] : n \in 1..MaxMics}

\* open(file, "r") on the log and the scan for a line starting with
\* "Error": the line, else the exception e; FileNotFoundError when the
\* program left no log.
ErrorFromTxt(log) ==
    IF log = "absent" THEN [err |-> "FileNotFoundError", msg |-> "none"]
    ELSE [err |-> "none", msg |-> IF log = "error" THEN "logLine" ELSE "exception"]

_getErrorFromCtffindTxt(mic) == ErrorFromTxt(mic.log)

_getErrorFromPickerTxt(mic) == ErrorFromTxt(mic.log)

_getErrorFromUnblurTxt(movie) == ErrorFromTxt(movie.log)

\* try: runJob(...) except Exception as e: self.error(... fromTxt ...):
\* what the step logs, and the exception that leaves the handler.
Handled(fails, fromTxt) ==
    IF ~fails THEN [err |-> "none", msg |-> "none"]
    ELSE fromTxt

\* _doCtfEstimation(mic): a missing input raises before the try.
_doCtfEstimation(mic) ==
    IF ~mic.input THEN [err |-> "FileNotFoundError", msg |-> "none"]
    ELSE Handled(mic.fails, _getErrorFromCtffindTxt(mic))

\* One pass of the loop of _pickMicrographStep.
PickOne(mic) == Handled(mic.fails, _getErrorFromPickerTxt(mic))

\* _processMovie(movie)
_processMovie(movie) == Handled(movie.fails, _getErrorFromUnblurTxt(movie))

ItemInit ==
    /\ itemKind \in {"ctffind", "picking", "unblur"}
    /\ itemList \in CASE itemKind = "ctffind" -> {<<mic>> : mic \in MicValues}
                      [] itemKind = "unblur" -> {<<mic>> : mic \in ReadableMics}
                      [] OTHER -> MicLists
    /\ itemPos = 1
    /\ itemOut = <<>>
    /\ itemErr = "none"
    /\ itemPc = "call"

\* No step, for the specifications of other components.
ItemIdle ==
    /\ itemKind = "none"
    /\ itemList = <<>>
    /\ itemPos = 1
    /\ itemOut = <<>>
    /\ itemErr = "none"
    /\ itemPc = "idle"

\* The step after the item at itemPos gave r: an exception ends the step,
\* else the step goes on to the next item and returns after the last.
AfterItem(r) ==
    /\ itemErr' = r.err
    /\ itemOut' = IF r.err = "none" THEN Append(itemOut, r.msg) ELSE itemOut
    /\ itemPos' = IF r.err = "none" THEN itemPos + 1 ELSE itemPos
    /\ itemPc' = IF r.err # "none" \/ itemPos = Len(itemList)
                 THEN "returned" ELSE "call"
    /\ UNCHANGED <<itemKind, itemList>>

DoCtfEstimation ==
    /\ itemPc = "call" /\ itemKind = "ctffind"
    /\ AfterItem(_doCtfEstimation(itemList[itemPos]))

PickMicrograph ==
    /\ itemPc = "call" /\ itemKind = "picking"
    /\ AfterItem(PickOne(itemList[itemPos]))

ProcessMovie ==
    /\ itemPc = "call" /\ itemKind = "unblur"
    /\ AfterItem(_processMovie(itemList[itemPos]))

(***************************************************************************)
(* ProgramCtffind: __init__, _getArgs and getCommand                        *)
(*                                                                         *)
(* The argument template is a sequence of tokens: literal text, or a       *)
(* placeholder %(name)conv. A parameter dictionary maps a key to the kind  *)
(* of its value: "number", "text", "flag" (the string yes or no) or        *)
(* "None".                                                                 *)
(***************************************************************************)
Lit(text) == [lit |-> TRUE, name |-> text, conv |-> "-"]
Ph(name, conv) == [lit |-> FALSE, name |-> name, conv |-> conv]

\* The protocols: tomo tells whether the protocol has the attribute
\* measureTilt; measureTilt and measureThickness are read of such a
\* protocol only.
Protocols ==
    { p \in [usePowerSpectra : BOOLEAN, useStacks : BOOLEAN, fixAstig : BOOLEAN,
             findPhaseShift : BOOLEAN, slowSearch : BOOLEAN, tomo : BOOLEAN,
             measureTilt : BOOLEAN, measureThickness : BOOLEAN] :
        p.tomo \/ (~p.measureTilt /\ ~p.measureThickness) }

\* protocol.getCtfParamsDict(): the dictionary of the CTF protocols.
getCtfParamsDict ==
    [k \in {"voltage", "sphericalAberration", "magnification", "ampContrast",
            "samplingRate", "scannedPixelSize", "windowSize", "lowRes",
            "highRes", "minDefocus", "maxDefocus"} |-> "number"]

\* dict.update: the keys of b with the values of b, the others of a.
Updated(a, b) ==
    [k \in DOMAIN a \cup DOMAIN b |-> IF k \in DOMAIN b THEN b[k] ELSE a[k]]

\* The keys _getArgs sets whatever the options.
CommonParams ==
    [k \in {"step_focus", "astigmatism", "lowRes", "highRes", "minDefocus",
            "maxDefocus"} |-> "number"]
    @@ [k \in {"fixAstig", "phaseShift", "slowSearch", "measureTilt",
               "measureThickness"} |-> "flag"]

\* The keys set when the phase shift is searched.
PhaseShiftParams ==
    [k \in {"minPhaseShift", "maxPhaseShift", "stepPhaseShift"} |-> "number"]

\* The keys set when the thickness is measured.
ThicknessParams ==
    [k \in {"search1D", "refine2D", "useRoundedSquare", "downweightNodes"} |-> "flag"]
    @@ [k \in {"lowResNodes", "highResNodes"} |-> "number"]

EmptyDict == [k \in {} |-> "None"]

\* The paramDict _getArgs returns.
ParamsOf(protocol) ==
    Updated(Updated(Updated(getCtfParamsDict, CommonParams),
                    IF protocol.findPhaseShift THEN PhaseShiftParams ELSE EmptyDict),
            IF protocol.tomo /\ protocol.measureThickness
            THEN ThicknessParams ELSE EmptyDict)

\* The template before the options splice their fragments in.
BaseArgs ==
    << Lit("<< eof >"), Ph("ctffindOut", "s"), Ph("micFn", "s"),
       Ph("ctffindPSD", "s"), Ph("samplingRate", "f"), Ph("voltage", "f"),
       Ph("sphericalAberration", "f"), Ph("ampContrast", "f"),
       Ph("windowSize", "d"), Ph("lowRes", "f"), Ph("highRes", "f"),
       Ph("minDefocus", "f"), Ph("maxDefocus", "f"), Ph("step_focus", "f"),
       Lit("no"), Ph("slowSearch", "s"), Ph("fixAstig", "s"),
       Ph("phaseShift", "s"), Ph("measureTilt", "s"),
       Ph("measureThickness", "s"), Lit("no"), Lit("eof") >>

\* args.replace(old, new): every token old gives way to the tokens new.
RECURSIVE Replace(_, _, _)
Replace(args, old, new) ==
    IF args = <<>> THEN <<>>
    ELSE (IF Head(args) = old THEN new ELSE <<Head(args)>>)
         \o Replace(Tail(args), old, new)

\* The splice of an option: the replacement when the option is on.
Spliced(on, args, old, new) == IF on THEN Replace(args, old, new) ELSE args

WithPowerSpectra(protocol, args) ==
    Spliced(protocol.usePowerSpectra,
            Spliced(protocol.usePowerSpectra, args, Lit("<< eof >"),
                    <<Lit("--amplitude-spectrum-input << eof >")>>),
            Ph("samplingRate", "f"), <<Ph("powerSpectraPix", "f")>>)

WithStacks(protocol, args) ==
    Spliced(protocol.useStacks, args, Ph("micFn", "s"),
            <<Ph("micFn", "s"), Lit("no")>>)

WithAstigmatism(protocol, args) ==
    Spliced(protocol.fixAstig, args, Ph("fixAstig", "s"),
            <<Ph("fixAstig", "s"), Ph("astigmatism", "f")>>)

WithPhaseShift(protocol, args) ==
    Spliced(protocol.findPhaseShift, args, Ph("phaseShift", "s"),
            <<Ph("phaseShift", "s"), Ph("minPhaseShift", "f"),
              Ph("maxPhaseShift", "f"), Ph("stepPhaseShift", "f")>>)

WithThickness(protocol, args) ==
    Spliced(protocol.tomo /\ protocol.measureThickness, args,
            Ph("measureThickness", "s"),
            <<Ph("measureThickness", "s"), Ph("search1D", "s"),
              Ph("refine2D", "s"), Ph("lowResNodes", "s"),
              Ph("highResNodes", "s"), Ph("useRoundedSquare", "s"),
              Ph("downweightNodes", "s")>>)

\* The args string _getArgs returns.
ArgsOf(protocol) ==
    WithThickness(protocol,
      WithPhaseShift(protocol,
        WithAstigmatism(protocol,
          WithStacks(protocol,
            WithPowerSpectra(protocol, BaseArgs)))))

\* _getArgs(protocol)
_getArgs(protocol) == [args |-> ArgsOf(protocol), params |-> ParamsOf(protocol)]

\* The exception the % operator raises at a token: KeyError for a
\* placeholder without key, TypeError for a %f or %d of a value that is no
\* number.
TokenError(tok, paramDict) ==
    IF tok.lit THEN "none"
    ELSE IF tok.name \notin DOMAIN paramDict THEN "KeyError"
    ELSE IF tok.conv \in {"f", "d"} /\ paramDict[tok.name] # "number"
         THEN "TypeError"
    ELSE "none"

\* The positions of the tokens that raise.
FailingTokens(args, paramDict) ==
    {k \in 1..Len(args) : TokenError(args[k], paramDict) # "none"}

FirstOf(S) == CHOOSE k \in S : \A j \in S : k <= j

\* The rendered fields: the text of a literal, the value of a placeholder.
Fields(args, paramDict) ==
    [k \in 1..Len(args) |->
        IF args[k].lit THEN args[k].name ELSE paramDict[args[k].name]]

\* The substitution as a slip would write it: a placeholder without key
\* renders an empty field.
Render_blank(args, paramDict) ==
    [err |-> "none",
     out |-> [k \in 1..Len(args) |->
                IF args[k].lit THEN args[k].name
                ELSE IF args[k].name \in DOMAIN paramDict
                     THEN paramDict[args[k].name] ELSE ""]]

\* self._args % paramDict: one pass from the left, the first token that
\* raises ends it.
Render(args, paramDict) ==
    IF FailingTokens(args, paramDict) = {}
    THEN [err |-> "none", out |-> Fields(args, paramDict)]
    ELSE [err |-> TokenError(args[FirstOf(FailingTokens(args, paramDict))], paramDict),
          out |-> <<>>]

\* getCommand(**kwargs)
getCommand(args, params, kwargs) == Render(args, Updated(params, kwargs))

\* The keyword arguments of the callers; powerSpectraPix is a number or
\* None.
KwargNames == {"micFn", "powerSpectraPix", "ctffindOut", "ctffindPSD"}

KwargsOver(S) ==
    { [k \in S |-> IF k = "powerSpectraPix" THEN pix ELSE "text"] :
        pix \in IF "powerSpectraPix" \in S THEN {"number", "None"} ELSE {"None"} }

KwargValues == UNION {KwargsOver(S) : S \in SUBSET KwargNames}

\* A protocol is about to create its ProgramCtffind.
CmdInit ==
    /\ cmdProtocol \in Protocols
    /\ cmdKwargs \in KwargValues
    /\ cmdArgs = <<>>
    /\ cmdParams = EmptyDict
    /\ cmdOut = <<>>
    /\ cmdErr = "none"
    /\ cmdPc = "new"

\* No program, for the specifications of other components.
CmdIdle ==
    /\ cmdProtocol = [usePowerSpectra |-> FALSE, useStacks |-> FALSE,
                      fixAstig |-> FALSE, findPhaseShift |-> FALSE,
                      slowSearch |-> FALSE, tomo |-> FALSE,
                      measureTilt |-> FALSE, measureThickness |-> FALSE]
    /\ cmdKwargs = EmptyDict
    /\ cmdArgs = <<>>
    /\ cmdParams = EmptyDict
    /\ cmdOut = <<>>
    /\ cmdErr = "none"
    /\ cmdPc = "idle"

\* ProgramCtffind.__init__(protocol)
NewProgramCtffind ==
    /\ cmdPc = "new"
    /\ cmdPc' = "ready"
    /\ cmdArgs' = _getArgs(cmdProtocol).args
    /\ cmdParams' = _getArgs(cmdProtocol).params
    /\ UNCHANGED <<cmdProtocol, cmdKwargs, cmdOut, cmdErr>>

\* One call of getCommand(**kwargs).
GetCommand ==
    /\ cmdPc = "ready"
    /\ cmdPc' = "returned"
    /\ \E r \in {getCommand(cmdArgs, cmdParams, cmdKwargs)} :
          /\ cmdOut' = r.out
          /\ cmdErr' = r.err
    /\ UNCHANGED <<cmdProtocol, cmdKwargs, cmdArgs, cmdParams>>

(***************************************************************************)
(* Coordinates: readCoordinates(mic, fn, coordsSet)                         *)
(*                                                                         *)
(* A line of a .plt file is the sequence of its tokens; a token is a       *)
(* number or text float() cannot read.                                     *)
(***************************************************************************)
\* Largest number of lines of a .plt file.
MaxPltLines == 2

Tok(v) == [bad |-> FALSE, v |-> v]
BadTok == [bad |-> TRUE, v |-> 0]

\* The lines drawn: blank, one token, two and three tokens, an unreadable
\* first or second token.
PltLineValues ==
    { <<>>, <<Tok(3)>>, <<Tok(3), Tok(5)>>, <<Tok(5), Tok(3)>>, <<Tok(3), Tok(3)>>,
      <<Tok(3), Tok(5), Tok(7)>>, <<BadTok, Tok(5)>>, <<Tok(3), BadTok>> }

PltFiles ==
    {Absent} \cup UNION {{File(ls) : ls \in [1..n -> PltLineValues]} : n \in 0..MaxPltLines}

\* mic.getYDim() of the micrographs drawn.
YDimValues == {10, 20}

\* The position as a slip would write it: x from the first token.
PositionOf_firstIsX(values, yDim) == [x |-> values[1].v, y |-> yDim - values[2].v]

\* x = float(values[1]); y = float(mic.getYDim() - float(values[0]))
PositionOf(values, yDim) == [x |-> values[2].v, y |-> yDim - values[1].v]

\* The exception a line raises: values[1] is read first (IndexError below
\* two tokens, ValueError when unreadable), then values[0].
LineError(values) ==
    IF Len(values) < 2 THEN "IndexError"
    ELSE IF values[2].bad \/ values[1].bad THEN "ValueError"
    ELSE "none"

\* The lines that raise.
RaisingLines(ls) == {k \in 1..Len(ls) : LineError(ls[k]) # "none"}

\* The coordinate appended for a line.
CoordOf(values, mic) ==
    [x |-> PositionOf(values, mic.yDim).x, y |-> PositionOf(values, mic.yDim).y,
     mic |-> mic.id]

\* The loop over the first n lines.
CoordsOfLines(ls, n, mic) == [k \in 1..n |-> CoordOf(ls[k], mic)]

\* The loop over the lines: it ends at the first line that raises, with
\* the coordinates of the lines before it appended.
ReadLines(mic, ls, coords, raising) ==
    IF raising = {}
    THEN [err |-> "none", coords |-> coords \o CoordsOfLines(ls, Len(ls), mic)]
    ELSE [err |-> LineError(ls[FirstOf(raising)]),
          coords |-> coords \o CoordsOfLines(ls, FirstOf(raising) - 1, mic)]

\* readCoordinates(mic, fn, coordsSet)
readCoordinates(mic, fn, coords) ==
    IF fn.exists THEN ReadLines(mic, fn.lines, coords, RaisingLines(fn.lines))
    ELSE [err |-> "none", coords |-> coords]

\* The set holds nothing, or a coordinate of an earlier micrograph.
CoordInit ==
    /\ coordMic \in [id : {2}, yDim : YDimValues]
    /\ pltFile \in PltFiles
    /\ coordsSet \in {<<>>, <<[x |-> 1, y |-> 1, mic |-> 1]>>}
    /\ coordsAtCall = coordsSet
    /\ coordErr = "none"
    /\ coordPc = "call"

\* No call, for the specifications of other components.
CoordIdle ==
    /\ coordMic = [id |-> 1, yDim |-> 10]
    /\ pltFile = Absent
    /\ coordsSet = <<>>
    /\ coordsAtCall = <<>>
    /\ coordErr = "none"
    /\ coordPc = "idle"

\* One call of readCoordinates.
CallReadCoordinates ==
    /\ coordPc = "call"
    /\ coordPc' = "returned"
    /\ \E r \in {readCoordinates(coordMic, pltFile, coordsSet)} :
          /\ coordsSet' = r.coords
          /\ coordErr' = r.err
    /\ UNCHANGED <<coordMic, pltFile, coordsAtCall>>

(***************************************************************************)
(* Refine2d run: the steps of _insertAllSteps as the executor runs them,    *)
(* with the particle counter currPtcl, the range of every refine job and   *)
(* the files the steps leave complete                                      *)
(***************************************************************************)
\* Largest number of particles of the input set of a run.
MaxPtcls == 7

\* ptcls_per_job of _getJobsParams
PtclsPerJob(parts, jobs) ==
    IF parts - jobs < jobs THEN 1 ELSE RoundHalfEven(parts, jobs)

\* refineStep, the range of the job: job 1 starts at particle 1 and is not
\* cut at numPtcls, a later job starts at the counter and is cut at
\* numPtcls.
JobRange(job, ptcls_per_job, counter, numPtcls) ==
    IF job = 1
    THEN [firstPart |-> 1, lastPart |-> 1 + ptcls_per_job]
    ELSE [firstPart |-> counter,
          lastPart |-> IF counter + ptcls_per_job > numPtcls
                       THEN numPtcls ELSE counter + ptcls_per_job]

NoRange == [firstPart |-> 0, lastPart |-> 0]

\* A file of the run: its template, iteration and block (0 where the
\* template has none).
RunFile(kind, iterN, block) == [kind |-> kind, iterN |-> iterN, block |-> block]

\* The files a step has written when it returns.
OutputsOf(step) ==
    CASE step.funcName = "writeInitParStep" -> {RunFile("iter_par", 1, 0)}
      [] step.funcName = "makeInitClassesStep" -> {RunFile("iter_cls", 1, 0)}
      [] step.funcName = "refineStep" ->
             {RunFile("iter_par_block", step.iterN, step.job),
              RunFile("iter_cls_block", step.iterN, step.job)}
      [] step.funcName = "mergeStep" ->
             {RunFile("iter_par", step.iterN, 0), RunFile("iter_cls", step.iterN, 0)}
      [] OTHER -> {}

\* The inputs as a slip would write them: the files of the iteration
\* itself.
InputsOf_sameIter(step) ==
    CASE step.funcName = "makeInitClassesStep" -> {RunFile("iter_par", 1, 0)}
      [] step.funcName = "refineStep" ->
             {RunFile("iter_par", step.iterN, 0), RunFile("iter_cls", step.iterN, 0)}
      [] OTHER -> {}

\* The files a step reads: input_params and input_cls of the iteration.
InputsOf(step) ==
    CASE step.funcName = "makeInitClassesStep" -> {RunFile("iter_par", 1, 0)}
      [] step.funcName = "refineStep" ->
             {RunFile("iter_par", step.iterN - 1, 0),
              RunFile("iter_cls", step.iterN - 1, 0)}
      [] OTHER -> {}

\* A new run of 1..MaxIterations iterations: the steps are inserted, the
\* counter is 1, no step has run.
RunInit ==
    /\ runParts \in 1..MaxPtcls
    /\ \E threads \in 1..MaxJobs, mpi \in 1..MaxJobs : runJobs = JobsOf(threads, mpi)
    /\ runIterations \in 1..MaxIterations
    /\ runSteps = insertAllSteps(FALSE, 1, runIterations, runJobs)
    /\ runStatus = [i \in 1..Len(runSteps) |-> "new"]
    /\ currPtcl = 1
    /\ runRanges = [i \in 1..Len(runSteps) |-> NoRange]
    /\ runFiles = {}
    /\ runStarted = <<>>

\* No run, for the specifications of other components.
RunIdle ==
    /\ runParts = 1
    /\ runIterations = 1
    /\ runJobs = 1
    /\ runSteps = <<>>
    /\ runStatus = <<>>
    /\ currPtcl = 1
    /\ runRanges = <<>>
    /\ runFiles = {}
    /\ runStarted = <<>>

\* The executor starts a new step whose prerequisites have all finished; a
\* refineStep takes its range and moves the counter past it.
StartRunStep(i) ==
    /\ runStatus[i] = "new"
    /\ \A j \in runSteps[i].prerequisites : runStatus[j] = "finished"
    /\ \A j \in 1..Len(runSteps) : runStatus[j] # "failed"
    /\ runStatus' = [runStatus EXCEPT ![i] = "running"]
    /\ runStarted' = Append(runStarted, i)
    /\ IF runSteps[i].funcName = "refineStep"
       THEN \E r \in {JobRange(runSteps[i].job, PtclsPerJob(runParts, runJobs),
                               currPtcl, runParts)} :
               /\ runRanges' = [runRanges EXCEPT ![i] = r]
               /\ currPtcl' = r.lastPart + 1
       ELSE UNCHANGED <<runRanges, currPtcl>>
    /\ UNCHANGED <<runParts, runIterations, runJobs, runSteps, runFiles>>

\* A running step returns; its output files are complete.
FinishRunStep(i) ==
    /\ runStatus[i] = "running"
    /\ runStatus' = [runStatus EXCEPT ![i] = "finished"]
    /\ runFiles' = runFiles \cup OutputsOf(runSteps[i])
    /\ UNCHANGED <<runParts, runIterations, runJobs, runSteps, currPtcl, runRanges, runStarted>>

\* A running step raises.
FailRunStep(i) ==
    /\ runStatus[i] = "running"
    /\ runStatus' = [runStatus EXCEPT ![i] = "failed"]
    /\ UNCHANGED <<runParts, runIterations, runJobs, runSteps, currPtcl, runRanges, runFiles, runStarted>>

StartSomeRunStep == \E i \in 1..Len(runSteps) : StartRunStep(i)

FinishSomeRunStep == \E i \in 1..Len(runSteps) : FinishRunStep(i)

FailSomeRunStep == \E i \in 1..Len(runSteps) : FailRunStep(i)

(***************************************************************************)
(* Last iteration: _createIterTemplates, _getIterNumber and _lastIter as    *)
(* createOutputStep calls it                                               *)
(*                                                                         *)
(* A parameter file is named by the characters that follow                 *)
(* classification_input_par_ in its path.                                  *)
(***************************************************************************)
\* Largest numberOfIterations of a finished run.
MaxRunIters == 101

ParExt == <<".", "p", "a", "r">>

\* iter_par: classification_input_par_%(iter)d.par
IterParName(iterN) == Digits(iterN) \o ParExt

\* iter_par_block: classification_input_par_%(iter)d_%(block)d.par
IterParBlockName(iterN, block) == Digits(iterN) \o <<"_">> \o Digits(block) \o ParExt

\* The parameter files a finished run of n iterations with the given jobs
\* has left: iter_par of 1..n, iter_par_block of every job of 2..n. All of
\* them match _iterTemplate, classification_input_par_*.par.
GlobIterTemplate(n, jobs) ==
    {IterParName(k) : k \in 1..n}
    \cup {IterParBlockName(k, b) : k \in 2..n, b \in 1..jobs}

\* The code point of a character of a file name.
CharCode(ch) ==
    CASE ch = "." -> 46
      [] IsDigit(ch) -> 48 + DigitOf(ch)
      [] ch = "_" -> 95
      [] ch = "a" -> 97
      [] ch = "p" -> 112
      [] OTHER -> 114

\* a < b as Python compares strings.
StrLess(a, b) ==
    \E k \in 1..Len(b) :
        /\ k - 1 <= Len(a)
        /\ \A j \in 1..(k - 1) : a[j] = b[j]
        /\ (k > Len(a) \/ CharCode(a[k]) < CharCode(b[k]))

\* sorted(files)[-1]
LastSorted(files) == CHOOSE f \in files : \A g \in files : g = f \/ StrLess(g, f)

\* group 1 of input_par_(\d{1,2}): the first digit and the second
\* character if it is a digit.
IterRegexGroup(name) ==
    IF Len(name) >= 2 /\ IsDigit(name[2]) THEN SubSeq(name, 1, 2) ELSE SubSeq(name, 1, 1)

\* _getIterNumber(-1): None (0 here) without files.
_getIterNumber(files) ==
    IF files = {} THEN 0 ELSE DigitsValue(IterRegexGroup(LastSorted(files)))

\* _lastIter()
_lastIter(files) == _getIterNumber(files)

\* The run has finished its iterations; createOutputStep is to run.
LastIterInit ==
    /\ lastIterRun \in [n : 1..MaxRunIters, jobs : 1..MaxJobs]
    /\ lastIterFiles = GlobIterTemplate(lastIterRun.n, lastIterRun.jobs)
    /\ lastIterRet = 0
    /\ lastIterPc = "call"

\* No run, for the specifications of other components.
LastIterIdle ==
    /\ lastIterRun = [n |-> 1, jobs |-> 1]
    /\ lastIterFiles = {}
    /\ lastIterRet = 0
    /\ lastIterPc = "idle"

\* createOutputStep calls _lastIter().
CallLastIter ==
    /\ lastIterPc = "call"
    /\ lastIterPc' = "returned"
    /\ lastIterRet' = _lastIter(lastIterFiles)
    /\ UNCHANGED <<lastIterRun, lastIterFiles>>

(***************************************************************************)
(* Tilt-series output: CistemProtTsCtffind.createOutputStep, _getCtfTi      *)
(*                                                                         *)
(* The loop of createOutputStep over the tilt images of one series.  One   *)
(* CTFModel is created before the loop and handed to _getCtfTi for every   *)
(* image; the CTFTomo of an image is made from that model as               *)
(* readCtfModelStack leaves it.                                            *)
(***************************************************************************)
\* ctfResult of a series: None (missing log) or one row per tilt image.
TiArrays ==
    {[ndim |-> 0, rows |-> <<>>]}
    \cup UNION {{[ndim |-> 2, rows |-> rs] : rs \in [1..n -> StackRows]} :
                   n \in 2..MaxStackRows}

\* Number of tilt images of the series whose result is a.
TiImagesOf(a) == IF ArrayIsNone(a) THEN {1, 2} ELSE {Len(a.rows)}

\* CTFTomo.ctfModelToCtfTomo(ctf), then the copy of _rlnIceRingDensity when
\* the model has it: the CTFTomo carries the values the model holds.
ctfModelToCtfTomo(ctf, psdFile) ==
    [defocusU |-> ctf.defocusU, defocusV |-> ctf.defocusV,
     defocusAngle |-> ctf.defocusAngle, fitQuality |-> ctf.fitQuality,
     resolution |-> ctf.resolution, phaseShift |-> ctf.phaseShift,
     iceRing |-> ctf.iceRing, psdFile |-> psdFile]

\* _getCtfTi(ctf, ctfArray, rotAvgArray, tiIndex, psdStack): the model as
\* the call leaves it and the CTFTomo it returns.
_getCtfTi(ctf, a, rot, i) ==
    [ctf |-> readCtfModelStack(ctf, a, rot, i).model,
     ctfTomo |-> ctfModelToCtfTomo(readCtfModelStack(ctf, a, rot, i).model, i + 1)]

\* createOutputStep has parsed the log of the series and created the model.
TiInit ==
    /\ tiArray \in TiArrays
    /\ tiRot \in RotAvgArrays(tiArray)
    /\ tiImages \in TiImagesOf(tiArray)
    /\ tiCtf = NewCtfModel
    /\ tiIndex = 0
    /\ tiSeries = <<>>
    /\ tiPc = "loop"

\* The tilt-series output at rest, for the specifications of other components.
TiIdle ==
    /\ tiArray = [ndim |-> 0, rows |-> <<>>]
    /\ tiRot = [some |-> FALSE, vals |-> <<>>]
    /\ tiImages = 0
    /\ tiCtf = NewCtfModel
    /\ tiIndex = 0
    /\ tiSeries = <<>>
    /\ tiPc = "idle"

\* One pass of "for i, tiltImage in enumerate(ts.iterItems())".
NextTiltImage ==
    /\ tiPc = "loop"
    /\ tiIndex < tiImages
    /\ \E r \in {_getCtfTi(tiCtf, tiArray, tiRot, tiIndex)} :
          /\ tiCtf' = r.ctf
          /\ tiSeries' = Append(tiSeries, r.ctfTomo)
    /\ tiIndex' = tiIndex + 1
    /\ UNCHANGED <<tiArray, tiRot, tiImages, tiPc>>

\* The loop ends; outCtfSet.update(newCTFTomoSeries).
UpdateSeries ==
    /\ tiPc = "loop"
    /\ tiIndex = tiImages
    /\ tiPc' = "updated"
    /\ UNCHANGED <<tiArray, tiRot, tiImages, tiCtf, tiIndex, tiSeries>>

(***************************************************************************)
(* Per-item arguments: CistemProtUnblur._processMovie, _argsUnblur and     *)
(* CistemProtFindParticles._pickMicrographStep                             *)
(*                                                                         *)
(* Both protocols run their steps in STEPS_PARALLEL mode: the steps of     *)
(* different items run as threads of one protocol object.  _argsUnblur     *)
(* leaves the rendered script in self._args and _processMovie reads it     *)
(* back for runJob; every picking step is handed the same args dictionary, *)
(* updates it with its micrograph's values and renders the script from it. *)
(* A script or dictionary is written here by the item its values are of.   *)
(***************************************************************************)
\* Largest number of items (movies or micrographs) of a run.
MaxArgItems == 3

\* The per-item values of the unblur script: movieName, micFnName, shiftsFn.
UnblurValues(movie) ==
    [movieName |-> movie, micFnName |-> movie, shiftsFn |-> movie]

\* The per-item values of the picking dictionary: the file names of the
\* micrograph and the values of its CTF.
PickValues(mic) ==
    [micName |-> mic, logFn |-> mic, outStack |-> mic, ctf |-> mic]

\* No script rendered yet, no per-item key in the dictionary yet.
NoValues == [none |-> TRUE]

\* The values item X's own script is rendered from.
OwnValues(kind, x) == IF kind = "unblur" THEN UnblurValues(x) ELSE PickValues(x)

\* Steps between their write of the shared object and their runJob.
InFlight(pcs) == {x \in DOMAIN pcs : pcs[x] = "written"}

\* The steps of the items are inserted; none has run.
ArgsInit ==
    /\ argKind \in {"unblur", "picking"}
    /\ argItems \in 1..MaxArgItems
    /\ argWorkers \in 1..MaxArgItems
    /\ argShared = NoValues
    /\ argPc = [x \in 1..argItems |-> "new"]
    /\ argRun = [x \in 1..argItems |-> NoValues]

\* The component at rest, for the specifications of other components.
ArgsIdle ==
    /\ argKind = "none"
    /\ argItems = 0
    /\ argWorkers = 1
    /\ argShared = NoValues
    /\ argPc = <<>>
    /\ argRun = <<>>

\* _processMovie, first half: self._argsUnblur(movie) sets self._args.
ArgsUnblur(x) ==
    /\ argKind = "unblur"
    /\ argPc[x] = "new"
    /\ Cardinality(InFlight(argPc)) < argWorkers
    /\ argShared' = UnblurValues(x)
    /\ argPc' = [argPc EXCEPT ![x] = "written"]
    /\ UNCHANGED <<argKind, argItems, argWorkers, argRun>>

\* _processMovie, second half: self.runJob(program, self._args, ...).
RunUnblur(x) ==
    /\ argKind = "unblur"
    /\ argPc[x] = "written"
    /\ argRun' = [argRun EXCEPT ![x] = argShared]
    /\ argPc' = [argPc EXCEPT ![x] = "done"]
    /\ UNCHANGED <<argKind, argItems, argWorkers, argShared>>

\* _pickMicrographStep, first half: args.update({...}) on the shared dict.
UpdatePickArgs(x) ==
    /\ argKind = "picking"
    /\ argPc[x] = "new"
    /\ Cardinality(InFlight(argPc)) < argWorkers
    /\ argShared' = PickValues(x)
    /\ argPc' = [argPc EXCEPT ![x] = "written"]
    /\ UNCHANGED <<argKind, argItems, argWorkers, argRun>>

\* _pickMicrographStep, second half: cmdArgs = argsStr % args; runJob.
RunPicker(x) ==
    /\ argKind = "picking"
    /\ argPc[x] = "written"
    /\ argRun' = [argRun EXCEPT ![x] = argShared]
    /\ argPc' = [argPc EXCEPT ![x] = "done"]
    /\ UNCHANGED <<argKind, argItems, argWorkers, argShared>>

SomeArgsUnblur == \E x \in 1..argItems : ArgsUnblur(x)
SomeRunUnblur == \E x \in 1..argItems : RunUnblur(x)
SomeUpdatePickArgs == \E x \in 1..argItems : UpdatePickArgs(x)
SomeRunPicker == \E x \in 1..argItems : RunPicker(x)

(***************************************************************************)
(* Tilt-series protocol: CistemProtTsCtffind._insertAllSteps,              *)
(* processTiltSeriesStep, createOutputStep, closeStep                      *)
(*                                                                         *)
(* One chain convert -> process -> createOutput per tilt series, the       *)
(* chains free to interleave, and one closeStep after every createOutput.  *)
(* createOutputStep runs under self._lock, so its body is one step of the  *)
(* protocol.  The log of a series is what ctffind left: a row per tilt     *)
(* image, no file, or a file np.loadtxt cannot read.                       *)
(***************************************************************************)
\* Largest number of input tilt series.
MaxSeries == 2

\* Numbers of tilt images a series is drawn with.
TiltImageCounts == {1, 2}

\* What processTiltSeriesStep can leave as the log of a series.
LogKinds == {"rows", "missing", "unreadable"}

\* closeStep waiting for the createOutputStep inserted last only.
ClosePrerequisites_last(pIdList) ==
    IF pIdList = {} THEN {}
    ELSE {CHOOSE p \in pIdList : \A q \in pIdList : q <= p}

\* self._insertFunctionStep(self.closeStep, prerequisites=pIdList)
ClosePrerequisites(pIdList) == pIdList

\* The body of "for mdObj in self.tsCtfMdList": three steps for series s.
InsertSeries(inserted, s) ==
    insertFunctionStepAfter(
        insertFunctionStepAfter(
            insertFunctionStepAfter(inserted, "convertInputStep", s, 0, {}),
            "processTiltSeriesStep", s, 0, {Len(inserted) + 1}),
        "createOutputStep", s, 0, {Len(inserted) + 2})

\* _insertAllSteps for series s..n, pIdList holding the ids collected so far.
RECURSIVE InsertTsSteps(_, _, _, _)
InsertTsSteps(inserted, s, n, pIdList) ==
    IF s > n
    THEN insertFunctionStepAfter(inserted, "closeStep", 0, 0,
                                 ClosePrerequisites(pIdList))
    ELSE InsertTsSteps(InsertSeries(inserted, s), s + 1, n,
                       pIdList \cup {Len(inserted) + 3})

\* getOutputCtfTomoSet() before the first createOutputStep: None.
NoOutputSet == [exists |-> FALSE, streamState |-> "none", series |-> <<>>]

\* SetOfCTFTomoSeries.create(...); setStreamState(Set.STREAM_OPEN)
CreateOutputSet == [exists |-> TRUE, streamState |-> "open", series |-> <<>>]

\* outCtfSet of createOutputStep: the existing set, or a new one.  A set
\* that exists holds at least the series of the step that created it.
OutCtfSetOf(out) == IF out.exists THEN out ELSE CreateOutputSet

\* outCtfSet.append(newCTFTomoSeries) for series s, and the CTFs the loop
\* over the tilt images appended to it by the time the step ends.
AppendSeries(out, s, ctfs) ==
    [out EXCEPT !.series = Append(out.series, [tsId |-> s, ctfs |-> ctfs])]

\* The steps are inserted for the input tilt series; none has run.
TsInit ==
    /\ tsImages \in UNION {[1..n -> TiltImageCounts] : n \in 1..MaxSeries}
    /\ tsSteps = InsertTsSteps(<<>>, 1, Len(tsImages), {})
    /\ tsStatus = [i \in 1..Len(tsSteps) |-> "new"]
    /\ tsLog = [s \in 1..Len(tsImages) |-> "none"]
    /\ tsOut = NoOutputSet
    /\ tsCreations = 0

\* No run, for the specifications of other components.
TsIdle ==
    /\ tsImages = <<>>
    /\ tsSteps = <<>>
    /\ tsStatus = <<>>
    /\ tsLog = <<>>
    /\ tsOut = NoOutputSet
    /\ tsCreations = 0

\* The executor starts a new step whose prerequisites have all finished.
StartTsStep(i) ==
    /\ tsStatus[i] = "new"
    /\ \A j \in tsSteps[i].prerequisites : tsStatus[j] = "finished"
    /\ \A j \in 1..Len(tsSteps) : tsStatus[j] # "failed"
    /\ tsStatus' = [tsStatus EXCEPT ![i] = "running"]
    /\ UNCHANGED <<tsImages, tsSteps, tsLog, tsOut, tsCreations>>

\* convertInputStep returns.
TsConvertInputStep(i) ==
    /\ tsStatus[i] = "running"
    /\ tsSteps[i].funcName = "convertInputStep"
    /\ tsStatus' = [tsStatus EXCEPT ![i] = "finished"]
    /\ UNCHANGED <<tsImages, tsSteps, tsLog, tsOut, tsCreations>>

\* processTiltSeriesStep returns: ctffind ran, or failed and was logged.
ProcessTiltSeriesStep(i) ==
    /\ tsStatus[i] = "running"
    /\ tsSteps[i].funcName = "processTiltSeriesStep"
    /\ \E kind \in LogKinds : tsLog' = [tsLog EXCEPT ![tsSteps[i].iterN] = kind]
    /\ tsStatus' = [tsStatus EXCEPT ![i] = "finished"]
    /\ UNCHANGED <<tsImages, tsSteps, tsOut, tsCreations>>

\* createOutputStep on a log parseCtffindOutput returns from (rows, or None
\* for a missing file): one CTF per tilt image.
CreateOutputStep(i) ==
    /\ tsStatus[i] = "running"
    /\ tsSteps[i].funcName = "createOutputStep"
    /\ tsLog[tsSteps[i].iterN] \in {"rows", "missing"}
    /\ tsOut' = AppendSeries(OutCtfSetOf(tsOut), tsSteps[i].iterN,
                             tsImages[tsSteps[i].iterN])
    /\ tsCreations' = IF tsOut.exists THEN tsCreations ELSE tsCreations + 1
    /\ tsStatus' = [tsStatus EXCEPT ![i] = "finished"]
    /\ UNCHANGED <<tsImages, tsSteps, tsLog>>

\* createOutputStep on a log np.loadtxt raises on: the series is appended,
\* then parseCtffindOutput raises and the step fails.
CreateOutputStepRaises(i) ==
    /\ tsStatus[i] = "running"
    /\ tsSteps[i].funcName = "createOutputStep"
    /\ tsLog[tsSteps[i].iterN] = "unreadable"
    /\ tsOut' = AppendSeries(OutCtfSetOf(tsOut), tsSteps[i].iterN, 0)
    /\ tsCreations' = IF tsOut.exists THEN tsCreations ELSE tsCreations + 1
    /\ tsStatus' = [tsStatus EXCEPT ![i] = "failed"]
    /\ UNCHANGED <<tsImages, tsSteps, tsLog>>

\* closeStep: self._closeOutputSet()
CloseStep(i) ==
    /\ tsStatus[i] = "running"
    /\ tsSteps[i].funcName = "closeStep"
    /\ tsOut' = [tsOut EXCEPT !.streamState = "closed"]
    /\ tsStatus' = [tsStatus EXCEPT ![i] = "finished"]
    /\ UNCHANGED <<tsImages, tsSteps, tsLog, tsCreations>>

StartSomeTsStep == \E i \in 1..Len(tsSteps) : StartTsStep(i)
SomeTsConvertInputStep == \E i \in 1..Len(tsSteps) : TsConvertInputStep(i)
SomeProcessTiltSeriesStep == \E i \in 1..Len(tsSteps) : ProcessTiltSeriesStep(i)
SomeCreateOutputStep == \E i \in 1..Len(tsSteps) : CreateOutputStep(i)
SomeCreateOutputStepRaises == \E i \in 1..Len(tsSteps) : CreateOutputStepRaises(i)
SomeCloseStep == \E i \in 1..Len(tsSteps) : CloseStep(i)

(***************************************************************************)
(* Streaming input of the picker: CistemProtFindParticles._loadInputList   *)
(*                                                                         *)
(* _loadMics and _loadCTFs give the micrographs and the CTFs that have     *)
(* arrived so far, each as a dictionary by micrograph key, and tell        *)
(* whether their stream is closed.                                         *)
(***************************************************************************)
\* Largest number of micrograph keys of the input.
MaxKeys == 3

MicKeys == 1..MaxKeys

\* The defocus values a loaded CTF is drawn with.
LoadedCtfValues == {11, 12}

\* A micrograph has no CTF until one is set.
NoCtf == 0

\* micDict: the micrographs loaded so far, by key.
MicDicts == UNION {[ks -> {NoCtf}] : ks \in SUBSET MicKeys}

\* ctfDict: the CTFs loaded so far, by the key of their micrograph.
CtfDicts == UNION {[ks -> LoadedCtfValues] : ks \in SUBSET MicKeys}

\* The loop as a slip would write it: every loaded micrograph is kept.
_loadInputList_all(mics, ctfs, micsClosed, ctfsClosed) ==
    [readyMics |-> [micKey \in DOMAIN mics |->
                       IF micKey \in DOMAIN ctfs THEN ctfs[micKey] ELSE mics[micKey]],
     closed |-> micsClosed /\ ctfsClosed]

\* for micKey, mic in micDict.items(): if micKey in ctfDict:
\*     mic.setCTF(ctfDict[micKey]); readyMics[micKey] = mic
\* return readyMics, micClose and ctfClosed
_loadInputList(mics, ctfs, micsClosed, ctfsClosed) ==
    [readyMics |-> [micKey \in DOMAIN mics \cap DOMAIN ctfs |-> ctfs[micKey]],
     closed |-> micsClosed /\ ctfsClosed]

\* The two input sets as they are when _loadInputList is called.
LoadInit ==
    /\ micDict \in MicDicts
    /\ ctfDict \in CtfDicts
    /\ micClose \in BOOLEAN
    /\ ctfClosed \in BOOLEAN
    /\ readyMics = <<>>
    /\ loadClosed = FALSE
    /\ loadPc = "call"

\* The component at rest, for the specifications of other components.
LoadIdle ==
    /\ micDict = <<>>
    /\ ctfDict = <<>>
    /\ micClose = FALSE
    /\ ctfClosed = FALSE
    /\ readyMics = <<>>
    /\ loadClosed = FALSE
    /\ loadPc = "idle"

\* One call of _loadInputList.
LoadInputList ==
    /\ loadPc = "call"
    /\ \E r \in {_loadInputList(micDict, ctfDict, micClose, ctfClosed)} :
          /\ readyMics' = r.readyMics
          /\ loadClosed' = r.closed
    /\ loadPc' = "returned"
    /\ UNCHANGED <<micDict, ctfDict, micClose, ctfClosed>>

(***************************************************************************)
(* Specifications: one per component, the other components at rest          *)
(***************************************************************************)
InitCtf == CtfInit /\ MergeIdle /\ PercIdle /\ ParIdle /\ StepsIdle /\ ResIdle
    /\ AvrotIdle /\ FileIdle /\ ItemIdle /\ CmdIdle /\ CoordIdle /\ RunIdle
    /\ LastIterIdle /\ TiIdle /\ ArgsIdle /\ TsIdle /\ LoadIdle

NextCtf ==
    /\ CtfNext
    /\ UNCHANGED <<mergeVars, percVars, parVars, stepsVars, resVars,
          avrotVars, fileVars, itemVars, cmdVars, coordVars,
          runVars, lastIterVars, tiVars, argsVars, tsVars,
          loadVars>>

SpecCtf == InitCtf /\ [][NextCtf]_vars

InitMerge == MergeInit /\ CtfIdle /\ PercIdle /\ ParIdle /\ StepsIdle
    /\ ResIdle /\ AvrotIdle /\ FileIdle /\ ItemIdle /\ CmdIdle /\ CoordIdle
    /\ RunIdle /\ LastIterIdle /\ TiIdle /\ ArgsIdle /\ TsIdle /\ LoadIdle

NextMerge ==
    /\ MergeNext
    /\ UNCHANGED <<ctfVars, percVars, parVars, stepsVars, resVars,
          avrotVars, fileVars, itemVars, cmdVars, coordVars,
          runVars, lastIterVars, tiVars, argsVars, tsVars,
          loadVars>>

SpecMerge == InitMerge /\ [][NextMerge]_vars

InitPerc == PercInit /\ CtfIdle /\ MergeIdle /\ ParIdle /\ StepsIdle
    /\ ResIdle /\ AvrotIdle /\ FileIdle /\ ItemIdle /\ CmdIdle /\ CoordIdle
    /\ RunIdle /\ LastIterIdle /\ TiIdle /\ ArgsIdle /\ TsIdle /\ LoadIdle

NextPerc ==
    /\ PercNext
    /\ UNCHANGED <<ctfVars, mergeVars, parVars, stepsVars, resVars,
          avrotVars, fileVars, itemVars, cmdVars, coordVars,
          runVars, lastIterVars, tiVars, argsVars, tsVars,
          loadVars>>

SpecPerc == InitPerc /\ [][NextPerc]_vars

InitPar == ParInit /\ CtfIdle /\ MergeIdle /\ PercIdle /\ StepsIdle /\ ResIdle
    /\ AvrotIdle /\ FileIdle /\ ItemIdle /\ CmdIdle /\ CoordIdle /\ RunIdle
    /\ LastIterIdle /\ TiIdle /\ ArgsIdle /\ TsIdle /\ LoadIdle

NextPar ==
    \/ /\ ConvertInputStep
       /\ UNCHANGED <<ctfVars, mergeVars, percVars, stepsVars, resVars,
             avrotVars, fileVars, itemVars, cmdVars, coordVars,
             runVars, lastIterVars, tiVars, argsVars, tsVars,
             loadVars>>
    \/ /\ WriteInitParStep
       /\ UNCHANGED <<ctfVars, mergeVars, percVars, stepsVars, resVars,
             avrotVars, fileVars, itemVars, cmdVars, coordVars,
             runVars, lastIterVars, tiVars, argsVars, tsVars,
             loadVars>>
    \/ /\ ReadSetOfParticles
       /\ UNCHANGED <<ctfVars, mergeVars, percVars, stepsVars, resVars,
             avrotVars, fileVars, itemVars, cmdVars, coordVars,
             runVars, lastIterVars, tiVars, argsVars, tsVars,
             loadVars>>
    \/ /\ FillClassesFromIter
       /\ UNCHANGED <<ctfVars, mergeVars, percVars, stepsVars, resVars,
             avrotVars, fileVars, itemVars, cmdVars, coordVars,
             runVars, lastIterVars, tiVars, argsVars, tsVars,
             loadVars>>

SpecPar == InitPar /\ [][NextPar]_vars

InitSteps == StepsInit /\ CtfIdle /\ MergeIdle /\ PercIdle /\ ParIdle
    /\ ResIdle /\ AvrotIdle /\ FileIdle /\ ItemIdle /\ CmdIdle /\ CoordIdle
    /\ RunIdle /\ LastIterIdle /\ TiIdle /\ ArgsIdle /\ TsIdle /\ LoadIdle

NextSteps ==
    \/ /\ \E i \in 1..Len(steps) : StartStep(i)
       /\ UNCHANGED <<ctfVars, mergeVars, percVars, parVars, resVars,
             avrotVars, fileVars, itemVars, cmdVars, coordVars,
             runVars, lastIterVars, tiVars, argsVars, tsVars,
             loadVars>>
    \/ /\ \E i \in 1..Len(steps) : FinishStep(i)
       /\ UNCHANGED <<ctfVars, mergeVars, percVars, parVars, resVars,
             avrotVars, fileVars, itemVars, cmdVars, coordVars,
             runVars, lastIterVars, tiVars, argsVars, tsVars,
             loadVars>>
    \/ /\ \E i \in 1..Len(steps) : FailStep(i)
       /\ UNCHANGED <<ctfVars, mergeVars, percVars, parVars, resVars,
             avrotVars, fileVars, itemVars, cmdVars, coordVars,
             runVars, lastIterVars, tiVars, argsVars, tsVars,
             loadVars>>

SpecSteps == InitSteps /\ [][NextSteps]_vars

InitRes == ResInit /\ CtfIdle /\ MergeIdle /\ PercIdle /\ ParIdle /\ StepsIdle
    /\ AvrotIdle /\ FileIdle /\ ItemIdle /\ CmdIdle /\ CoordIdle /\ RunIdle
    /\ LastIterIdle /\ TiIdle /\ ArgsIdle /\ TsIdle /\ LoadIdle

NextRes ==
    /\ CallCalcHighResLimit
    /\ UNCHANGED <<ctfVars, mergeVars, percVars, parVars, stepsVars,
          avrotVars, fileVars, itemVars, cmdVars, coordVars,
          runVars, lastIterVars, tiVars, argsVars, tsVars,
          loadVars>>

SpecRes == InitRes /\ [][NextRes]_vars

InitAvrot == AvrotInit /\ CtfIdle /\ MergeIdle /\ PercIdle /\ ParIdle
    /\ StepsIdle /\ ResIdle /\ FileIdle /\ ItemIdle /\ CmdIdle /\ CoordIdle
    /\ RunIdle /\ LastIterIdle /\ TiIdle /\ ArgsIdle /\ TsIdle /\ LoadIdle

NextAvrot ==
    /\ CallParseAvrot
    /\ UNCHANGED <<ctfVars, mergeVars, percVars, parVars, stepsVars,
          resVars, fileVars, itemVars, cmdVars, coordVars, runVars,
          lastIterVars, tiVars, argsVars, tsVars, loadVars>>

SpecAvrot == InitAvrot /\ [][NextAvrot]_vars

InitFile == FileInit /\ CtfIdle /\ MergeIdle /\ PercIdle /\ ParIdle
    /\ StepsIdle /\ ResIdle /\ AvrotIdle /\ ItemIdle /\ CmdIdle /\ CoordIdle
    /\ RunIdle /\ LastIterIdle /\ TiIdle /\ ArgsIdle /\ TsIdle /\ LoadIdle

NextFile ==
    /\ CallReadCtfModel
    /\ UNCHANGED <<ctfVars, mergeVars, percVars, parVars, stepsVars,
          resVars, avrotVars, itemVars, cmdVars, coordVars,
          runVars, lastIterVars, tiVars, argsVars, tsVars,
          loadVars>>

SpecFile == InitFile /\ [][NextFile]_vars

InitItem == ItemInit /\ CtfIdle /\ MergeIdle /\ PercIdle /\ ParIdle
    /\ StepsIdle /\ ResIdle /\ AvrotIdle /\ FileIdle /\ CmdIdle /\ CoordIdle
    /\ RunIdle /\ LastIterIdle /\ TiIdle /\ ArgsIdle /\ TsIdle /\ LoadIdle

NextItem ==
    \/ /\ DoCtfEstimation
       /\ UNCHANGED <<ctfVars, mergeVars, percVars, parVars, stepsVars,
             resVars, avrotVars, fileVars, cmdVars, coordVars,
             runVars, lastIterVars, tiVars, argsVars, tsVars,
             loadVars>>
    \/ /\ PickMicrograph
       /\ UNCHANGED <<ctfVars, mergeVars, percVars, parVars, stepsVars,
             resVars, avrotVars, fileVars, cmdVars, coordVars,
             runVars, lastIterVars, tiVars, argsVars, tsVars,
             loadVars>>
    \/ /\ ProcessMovie
       /\ UNCHANGED <<ctfVars, mergeVars, percVars, parVars, stepsVars,
             resVars, avrotVars, fileVars, cmdVars, coordVars,
             runVars, lastIterVars, tiVars, argsVars, tsVars,
             loadVars>>

SpecItem == InitItem /\ [][NextItem]_vars

InitCmd == CmdInit /\ CtfIdle /\ MergeIdle /\ PercIdle /\ ParIdle /\ StepsIdle
    /\ ResIdle /\ AvrotIdle /\ FileIdle /\ ItemIdle /\ CoordIdle /\ RunIdle
    /\ LastIterIdle /\ TiIdle /\ ArgsIdle /\ TsIdle /\ LoadIdle

NextCmd ==
    \/ /\ NewProgramCtffind
       /\ UNCHANGED <<ctfVars, mergeVars, percVars, parVars, stepsVars,
             resVars, avrotVars, fileVars, itemVars, coordVars,
             runVars, lastIterVars, tiVars, argsVars, tsVars,
             loadVars>>
    \/ /\ GetCommand
       /\ UNCHANGED <<ctfVars, mergeVars, percVars, parVars, stepsVars,
             resVars, avrotVars, fileVars, itemVars, coordVars,
             runVars, lastIterVars, tiVars, argsVars, tsVars,
             loadVars>>

SpecCmd == InitCmd /\ [][NextCmd]_vars

InitCoord == CoordInit /\ CtfIdle /\ MergeIdle /\ PercIdle /\ ParIdle
    /\ StepsIdle /\ ResIdle /\ AvrotIdle /\ FileIdle /\ ItemIdle /\ CmdIdle
    /\ RunIdle /\ LastIterIdle /\ TiIdle /\ ArgsIdle /\ TsIdle /\ LoadIdle

NextCoord ==
    /\ CallReadCoordinates
    /\ UNCHANGED <<ctfVars, mergeVars, percVars, parVars, stepsVars,
          resVars, avrotVars, fileVars, itemVars, cmdVars, runVars,
          lastIterVars, tiVars, argsVars, tsVars, loadVars>>

SpecCoord == InitCoord /\ [][NextCoord]_vars

InitRun == RunInit /\ CtfIdle /\ MergeIdle /\ PercIdle /\ ParIdle /\ StepsIdle
    /\ ResIdle /\ AvrotIdle /\ FileIdle /\ ItemIdle /\ CmdIdle /\ CoordIdle
    /\ LastIterIdle /\ TiIdle /\ ArgsIdle /\ TsIdle /\ LoadIdle

NextRun ==
    \/ /\ StartSomeRunStep
       /\ UNCHANGED <<ctfVars, mergeVars, percVars, parVars, stepsVars,
             resVars, avrotVars, fileVars, itemVars, cmdVars,
             coordVars, lastIterVars, tiVars, argsVars, tsVars,
             loadVars>>
    \/ /\ FinishSomeRunStep
       /\ UNCHANGED <<ctfVars, mergeVars, percVars, parVars, stepsVars,
             resVars, avrotVars, fileVars, itemVars, cmdVars,
             coordVars, lastIterVars, tiVars, argsVars, tsVars,
             loadVars>>
    \/ /\ FailSomeRunStep
       /\ UNCHANGED <<ctfVars, mergeVars, percVars, parVars, stepsVars,
             resVars, avrotVars, fileVars, itemVars, cmdVars,
             coordVars, lastIterVars, tiVars, argsVars, tsVars,
             loadVars>>

SpecRun == InitRun /\ [][NextRun]_vars

InitLastIter == LastIterInit /\ CtfIdle /\ MergeIdle /\ PercIdle /\ ParIdle
    /\ StepsIdle /\ ResIdle /\ AvrotIdle /\ FileIdle /\ ItemIdle /\ CmdIdle
    /\ CoordIdle /\ RunIdle /\ TiIdle /\ ArgsIdle /\ TsIdle /\ LoadIdle

NextLastIter ==
    /\ CallLastIter
    /\ UNCHANGED <<ctfVars, mergeVars, percVars, parVars, stepsVars,
          resVars, avrotVars, fileVars, itemVars, cmdVars,
          coordVars, runVars, tiVars, argsVars, tsVars, loadVars>>

SpecLastIter == InitLastIter /\ [][NextLastIter]_vars

InitTi == TiInit /\ CtfIdle /\ MergeIdle /\ PercIdle /\ ParIdle /\ StepsIdle
    /\ ResIdle /\ AvrotIdle /\ FileIdle /\ ItemIdle /\ CmdIdle /\ CoordIdle
    /\ RunIdle /\ LastIterIdle /\ ArgsIdle /\ TsIdle /\ LoadIdle

NextTi ==
    \/ /\ NextTiltImage
       /\ UNCHANGED <<ctfVars, mergeVars, percVars, parVars, stepsVars,
             resVars, avrotVars, fileVars, itemVars, cmdVars,
             coordVars, runVars, lastIterVars, argsVars, tsVars,
             loadVars>>
    \/ /\ UpdateSeries
       /\ UNCHANGED <<ctfVars, mergeVars, percVars, parVars, stepsVars,
             resVars, avrotVars, fileVars, itemVars, cmdVars,
             coordVars, runVars, lastIterVars, argsVars, tsVars,
             loadVars>>

SpecTi == InitTi /\ [][NextTi]_vars

InitArgs == ArgsInit /\ CtfIdle /\ MergeIdle /\ PercIdle /\ ParIdle
    /\ StepsIdle /\ ResIdle /\ AvrotIdle /\ FileIdle /\ ItemIdle /\ CmdIdle
    /\ CoordIdle /\ RunIdle /\ LastIterIdle /\ TiIdle /\ TsIdle /\ LoadIdle

NextArgs ==
    \/ /\ SomeArgsUnblur
       /\ UNCHANGED <<ctfVars, mergeVars, percVars, parVars, stepsVars,
             resVars, avrotVars, fileVars, itemVars, cmdVars,
             coordVars, runVars, lastIterVars, tiVars, tsVars,
             loadVars>>
    \/ /\ SomeRunUnblur
       /\ UNCHANGED <<ctfVars, mergeVars, percVars, parVars, stepsVars,
             resVars, avrotVars, fileVars, itemVars, cmdVars,
             coordVars, runVars, lastIterVars, tiVars, tsVars,
             loadVars>>
    \/ /\ SomeUpdatePickArgs
       /\ UNCHANGED <<ctfVars, mergeVars, percVars, parVars, stepsVars,
             resVars, avrotVars, fileVars, itemVars, cmdVars,
             coordVars, runVars, lastIterVars, tiVars, tsVars,
             loadVars>>
    \/ /\ SomeRunPicker
       /\ UNCHANGED <<ctfVars, mergeVars, percVars, parVars, stepsVars,
             resVars, avrotVars, fileVars, itemVars, cmdVars,
             coordVars, runVars, lastIterVars, tiVars, tsVars,
             loadVars>>

SpecArgs == InitArgs /\ [][NextArgs]_vars

InitTs == TsInit /\ CtfIdle /\ MergeIdle /\ PercIdle /\ ParIdle /\ StepsIdle
    /\ ResIdle /\ AvrotIdle /\ FileIdle /\ ItemIdle /\ CmdIdle /\ CoordIdle
    /\ RunIdle /\ LastIterIdle /\ TiIdle /\ ArgsIdle /\ LoadIdle

NextTs ==
    \/ /\ StartSomeTsStep
       /\ UNCHANGED <<ctfVars, mergeVars, percVars, parVars, stepsVars,
             resVars, avrotVars, fileVars, itemVars, cmdVars,
             coordVars, runVars, lastIterVars, tiVars, argsVars,
             loadVars>>
    \/ /\ SomeTsConvertInputStep
       /\ UNCHANGED <<ctfVars, mergeVars, percVars, parVars, stepsVars,
             resVars, avrotVars, fileVars, itemVars, cmdVars,
             coordVars, runVars, lastIterVars, tiVars, argsVars,
             loadVars>>
    \/ /\ SomeProcessTiltSeriesStep
       /\ UNCHANGED <<ctfVars, mergeVars, percVars, parVars, stepsVars,
             resVars, avrotVars, fileVars, itemVars, cmdVars,
             coordVars, runVars, lastIterVars, tiVars, argsVars,
             loadVars>>
    \/ /\ SomeCreateOutputStep
       /\ UNCHANGED <<ctfVars, mergeVars, percVars, parVars, stepsVars,
             resVars, avrotVars, fileVars, itemVars, cmdVars,
             coordVars, runVars, lastIterVars, tiVars, argsVars,
             loadVars>>
    \/ /\ SomeCreateOutputStepRaises
       /\ UNCHANGED <<ctfVars, mergeVars, percVars, parVars, stepsVars,
             resVars, avrotVars, fileVars, itemVars, cmdVars,
             coordVars, runVars, lastIterVars, tiVars, argsVars,
             loadVars>>
    \/ /\ SomeCloseStep
       /\ UNCHANGED <<ctfVars, mergeVars, percVars, parVars, stepsVars,
             resVars, avrotVars, fileVars, itemVars, cmdVars,
             coordVars, runVars, lastIterVars, tiVars, argsVars,
             loadVars>>

SpecTs == InitTs /\ [][NextTs]_vars

InitLoad == LoadInit /\ CtfIdle /\ MergeIdle /\ PercIdle /\ ParIdle
    /\ StepsIdle /\ ResIdle /\ AvrotIdle /\ FileIdle /\ ItemIdle /\ CmdIdle
    /\ CoordIdle /\ RunIdle /\ LastIterIdle /\ TiIdle /\ ArgsIdle /\ TsIdle

NextLoad ==
    /\ LoadInputList
    /\ UNCHANGED <<ctfVars, mergeVars, percVars, parVars, stepsVars,
          resVars, avrotVars, fileVars, itemVars, cmdVars,
          coordVars, runVars, lastIterVars, tiVars, argsVars,
          tsVars>>

SpecLoad == InitLoad /\ [][NextLoad]_vars

\* C8: _calcPercUsed never returns less than the manual percent, and returns
\* exactly the manual percent when autoPerc is false.
C8_NeverBelowManual ==
    percPc = "returned" =>
        /\ ~RLess(percRet, Rat(percArgs.percUsed, 1))
        /\ (~percArgs.autoPerc => percRet = Rat(percArgs.percUsed, 1))

\* An auto-mode call whose schedule value lies below the manual percent.
C8_Witness ==
    /\ percPc = "returned"
    /\ percArgs.autoPerc
    /\ RLess(percPre, Rat(percArgs.percUsed, 1))
    /\ percRet = Rat(percArgs.percUsed, 1)

\* The tier cutoff c of C9.
TierCutoff(iter_total) ==
    IF iter_total < 20 THEN 5 ELSE IF iter_total < 30 THEN 10 ELSE 15

\* C9: in auto mode, before the manual floor, the value is 100 when
\* iter_total < 10; otherwise f = min(100, numCls*300/numParts*100) when
\* iter_done < c, max(30, f) when c <= iter_done < iter_total - 5 and 100
\* when iter_done >= iter_total - 5.
C9_AutoSchedule ==
    (percPc = "returned" /\ percArgs.autoPerc) =>
        LET a == percArgs
            f == RMin(Rat(100, 1), Rat(a.numCls * 300 * 100, a.numParts))
            c == TierCutoff(a.iter_total)
        IN  /\ a.iter_total < 10 => REq(percPre, Rat(100, 1))
            /\ (a.iter_total >= 10 /\ a.iter_done < c) => REq(percPre, f)
            /\ (a.iter_total >= 10 /\ c <= a.iter_done
                    /\ a.iter_done < a.iter_total - 5) =>
                   REq(percPre, RMax(Rat(30, 1), f))
            /\ (a.iter_total >= 10 /\ a.iter_done >= a.iter_total - 5) =>
                   REq(percPre, Rat(100, 1))

\* A middle iteration of the 20..29 tier whose formula value is clamped to 30.
C9_Witness ==
    /\ percPc = "returned"
    /\ percArgs.autoPerc
    /\ percArgs.iter_total = 25
    /\ percArgs.iter_done = 12
    /\ RLess(PercFormula(percArgs.numCls, percArgs.numParts), Rat(30, 1))
    /\ percPre = Rat(30, 1)

C10_Args ==
    [iter_total |-> 25, iter_done |-> 5, numCls |-> 5, numParts |-> 50000,
     percUsed |-> 10, autoPerc |-> TRUE]

\* C10 as claimed: _calcPercUsed(25, 5, 5, 50000, 10, True) returns 30.0, the
\* formula value 3.0 clamped up to the 30% floor.
C10_Claimed ==
    (percPc = "returned" /\ percArgs = C10_Args) =>
        /\ REq(PercFormula(percArgs.numCls, percArgs.numParts), Rat(3, 1))
        /\ REq(percRet, Rat(30, 1))

\* C10 as amended: _calcPercUsed(25, 5, 5, 50000, 10, True) returns 10.0.
\* iter_done = 5 is an early iteration of the 20..29 tier (cutoff 10), so the
\* formula value 3.0 gets no 30% clamp and is raised to the manual percent.
C10_ManualFloorExample ==
    (percPc = "returned" /\ percArgs = C10_Args) =>
        /\ REq(PercFormula(percArgs.numCls, percArgs.numParts), Rat(3, 1))
        /\ REq(percPre, Rat(3, 1))
        /\ REq(percRet, Rat(10, 1))

\* The call of C10 has been made.
C10_Witness ==
    /\ percPc = "returned"
    /\ percArgs = C10_Args
    /\ percRet = Rat(10, 1)
\* The sentinel record of an invalid result; the phase shift stays unset.
IsSentinel(m) ==
    /\ m.defocusU = Val(-999)
    /\ m.defocusV = Val(-1)
    /\ m.defocusAngle = Val(-999)
    /\ m.fitQuality = Val(-999)
    /\ m.resolution = Val(-999)
    /\ m.phaseShift = Unset

\* C1: readCtfModelStack on a newly created model leaves exactly the
\* sentinel record whenever the array is None, or the selected row holds a
\* NaN in any column, or its defocus1 (column 1) or defocus2 (column 2) is
\* negative.
C1_SentinelOnInvalid ==
    (ctfPc = "returned" /\
        (\/ ctfArray.ndim = 0
         \/ \E k \in 1..Len(Values(ctfArray, item)) : Values(ctfArray, item)[k].nan
         \/ (~Values(ctfArray, item)[2].nan /\ Values(ctfArray, item)[2].v < 0)
         \/ (~Values(ctfArray, item)[3].nan /\ Values(ctfArray, item)[3].v < 0)))
    => IsSentinel(ctfModel)

\* A call on a row whose only defect is a negative defocus2 has returned
\* the sentinel.
C1_Witness ==
    /\ ctfPc = "returned"
    /\ ctfArray.ndim = 1
    /\ ~AnyNaN(Values(ctfArray, item))
    /\ Values(ctfArray, item)[2] = Num(5)
    /\ Values(ctfArray, item)[3] = Num(-1)
    /\ Values(ctfArray, item)[5] = Num(2)
    /\ IsSentinel(ctfModel)
\* The data rows of a file's lines, in file order.
DataRows(ls) == SelectSeq(ls, LAMBDA l : l # CLine)

\* Position in the merged file after which the rows of block b are written.
RECURSIVE RowOffset(_)
RowOffset(b) ==
    IF b = 1 THEN 1 ELSE RowOffset(b - 1) + Len(DataRows(blocksAtCall[b - 1].lines))

AllBlocksPresent == \A b \in 1..numberOfBlocks : blocksAtCall[b].exists

\* The indexes of s ascend one by one.
Contiguous(s) == \A j \in 1..(Len(s) - 1) : s[j + 1].idx = s[j].idx + 1

StrictlyAscending(s) == \A j \in 1..(Len(s) - 1) : s[j].idx < s[j + 1].idx

\* Every block holds an ascending contiguous index range, and the ranges
\* ascend with the block number.
BlocksAscend ==
    /\ \A b \in 1..numberOfBlocks : Contiguous(DataRows(blocksAtCall[b].lines))
    /\ \A b1, b2 \in 1..numberOfBlocks :
         b1 < b2 =>
           \A j1 \in 1..Len(DataRows(blocksAtCall[b1].lines)),
              j2 \in 1..Len(DataRows(blocksAtCall[b2].lines)) :
                DataRows(blocksAtCall[b1].lines)[j1].idx
                    < DataRows(blocksAtCall[b2].lines)[j2].idx

\* C3: with N >= 2 blocks the merged file is one header line followed by
\* the non-'C' lines of block 1, then of block 2, ..., then of block N, in
\* their order inside each block, none lost or duplicated; with N = 1 it is
\* block 1 unchanged.  When the blocks hold ascending contiguous ranges
\* that ascend with the block number, the merged data rows are strictly
\* ascending.
C3_MergeConcatenates ==
    (mergePc = "returned") =>
        /\ outFile.exists
        /\ numberOfBlocks = 1 => outFile.lines = blocksAtCall[1].lines
        /\ numberOfBlocks >= 2 =>
             /\ outFile.lines[1] = CLine
             /\ Len(outFile.lines) = RowOffset(numberOfBlocks + 1)
             /\ \A k \in 2..Len(outFile.lines) : outFile.lines[k] # CLine
             /\ \A b \in 1..numberOfBlocks :
                  \A j \in 1..Len(DataRows(blocksAtCall[b].lines)) :
                     outFile.lines[RowOffset(b) + j] = DataRows(blocksAtCall[b].lines)[j]
        /\ BlocksAscend => StrictlyAscending(DataRows(outFile.lines))

\* Three blocks with the ranges [1], [2], [3], one of them with its header
\* not on the first line, have been merged.
C3_Witness ==
    /\ mergePc = "returned"
    /\ numberOfBlocks = 3
    /\ blocksAtCall[1].lines = <<CLine, Row(1)>>
    /\ blocksAtCall[2].lines = <<Row(2), CLine>>
    /\ blocksAtCall[3].lines = <<CLine, Row(3)>>
    /\ outFile.lines = <<CLine, Row(1), Row(2), Row(3)>>

\* C4: if a block file of the iteration is absent when _mergeAllParFiles
\* runs, the merge raises an error that names an absent block file's path,
\* and no merged output file of the iteration exists afterwards.
C4_NoOutputOnMissingBlock ==
    (mergePc # "call" /\ ~AllBlocksPresent) =>
        /\ mergePc = "raised"
        /\ mergeErr \in 1..numberOfBlocks
        /\ ~blocksAtCall[mergeErr].exists
        /\ ~outFile.exists

\* The particle written on the k-th row: the one with k - 1 particles
\* before it in (_micId, id) ascending order.
ParticleOfRow(k) ==
    LET n == Len(inputParticles)
        before(b, a) == \/ inputParticles[b].micId < inputParticles[a].micId
                        \/ (inputParticles[b].micId = inputParticles[a].micId /\ b < a)
    IN  inputParticles[CHOOSE a \in 1..n : Cardinality({b \in 1..n : before(b, a)}) = k - 1]

\* The prior in-plane angle of a particle: the rotation of its alignment
\* about the view axis, which rowToAlignment takes from PSI.
PriorInPlaneAngle(part) == geometryFromMatrix(part.transform).angles[1]

\* The 17 values C5 states for the k-th row, floats in 1/1000.
C5_RowValues(k, part) ==
    <<k, IF hasAlignment THEN PriorInPlaneAngle(part) ELSE 0, 0, 0, 0, 0, 0, 0,
      part.ctf.defocusU, part.ctf.defocusV, part.ctf.defocusAngle,
      IF part.ctf.phaseShift.set THEN part.ctf.phaseShift.v ELSE 0,
      100000, 0, 10000, 0, 0>>

\* C5: writeInitParStep writes the header line and then one row per input
\* particle in (_micId, id) ascending order; the k-th row carries index k,
\* PSI = the prior in-plane angle when the set has alignment and 0 otherwise,
\* THETA = PHI = SHX = SHY = 0, MAG = 0, FILM = 0, DF1/DF2/ANGAST/PSHIFT of
\* the particle's CTF (PSHIFT 0 without phase shift), OCC = 100, LogP = 0,
\* SIGMA = 10, SCORE = CHANGE = 0.
C5_InitParContents ==
    parFile.exists =>
        parFile.lines =
            <<HeaderLine>> \o [k \in 1..Len(inputParticles) |->
                                 FormatRow(C5_RowValues(k, ParticleOfRow(k)))]

\* The token of a column reads as the value v, within tol (1/1000).
Near(row, key, v, tol) ==
    /\ key \in DOMAIN row
    /\ ParseFloat(row[key]).ok
    /\ Abs(ParseFloat(row[key]).v - v) <= tol

\* The k-th row read gives back the values written on the k-th line:
\* 17 fields keyed by HEADER_COLUMNS, angles to 2 decimals, defocus to 1.
RoundTrips(k) ==
    /\ DOMAIN parRows[k] = {HEADER_COLUMNS[c] : c \in 1..17}
    /\ Near(parRows[k], "INDEX", k * 1000, 0)
    /\ Near(parRows[k], "PSI", PsiOfParticle(ParticleOfRow(k), hasAlignment), 5)
    /\ Near(parRows[k], "DF1", ParticleOfRow(k).ctf.defocusU, 50)
    /\ Near(parRows[k], "DF2", ParticleOfRow(k).ctf.defocusV, 50)
    /\ Near(parRows[k], "ANGAST", ParticleOfRow(k).ctf.defocusAngle, 5)
    /\ Near(parRows[k], "PSHIFT", PhaseShiftOr0(ParticleOfRow(k).ctf), 5)

\* Every value written after the index is narrower than its field, so that
\* a blank separates it from the field before.
FieldsApart(part) ==
    /\ Len(FloatText(PsiOfParticle(part, hasAlignment), 2)) < 8
    /\ Len(FloatText(part.ctf.defocusU, 1)) < 9
    /\ Len(FloatText(part.ctf.defocusV, 1)) < 9
    /\ Len(FloatText(part.ctf.defocusAngle, 2)) < 8
    /\ Len(FloatText(PhaseShiftOr0(part.ctf), 2)) < 8

\* C6 as stated: every row written with the row format of writeInitParStep
\* reads back through FrealignParFile as 17 fields keyed by HEADER_COLUMNS
\* whose INDEX, PSI, DF1, DF2, ANGAST and PSHIFT equal the values written,
\* to the precision of the format.
C6_RoundTripAnyRow ==
    parPc = "read" => \A k \in 1..Len(parRows) : RoundTrips(k)

\* C6: a row whose values are each narrower than their field reads back
\* through FrealignParFile as 17 fields keyed by HEADER_COLUMNS whose INDEX,
\* PSI, DF1, DF2, ANGAST and PSHIFT equal the values written, to the
\* precision of the format (2 decimals for angles, 1 for defocus).
C6_RoundTripNarrowRows ==
    parPc = "read" =>
        \A k \in 1..Len(parRows) : FieldsApart(ParticleOfRow(k)) => RoundTrips(k)

\* A file read back whose second row holds a defocus that the format
\* rounds (19500.049 written as 19500.0).
C6_Witness ==
    /\ parPc = "read"
    /\ Len(parRows) = 2
    /\ ParticleOfRow(2).ctf.defocusV = 19500049
    /\ FieldsApart(ParticleOfRow(2))
    /\ RoundTrips(2)
    /\ parRows[2]["DF2"] = <<"1", "9", "5", "0", "0", ".", "0">>

\* The number of whitespace-separated fields of the k-th non-comment line
\* of the file.
FieldCount(k) == Len(Split(Strip(parFile.lines[k + 1])))

\* C7: reading a file with a non-comment row whose number of fields is not
\* 17 raises an error to the caller, in readSetOfParticles and in
\* _fillClassesFromIter (_iterRows / _updateParticle).
C7_FailFastOnColumnCount ==
    (parPc \in {"read", "filled"}
        /\ \E k \in 1..Len(inputParticles) : FieldCount(k) # 17)
    => parErr # "none"

\* The ids of the refineStep steps of iteration iterN.
RefineStepsOf(iterN) ==
    {j \in 1..Len(steps) : steps[j].funcName = "refineStep" /\ steps[j].iterN = iterN}

\* C2: for every iteration N >= 2 of a run with J jobs, mergeStep(N) has not
\* started unless all J refineStep(N, job) steps have finished: while the
\* merge runs, and ever after, no refine job of its iteration is writing.
C2_MergeAfterAllRefineJobs ==
    \A i \in 1..Len(steps) :
        (steps[i].funcName = "mergeStep" /\ stepStatus[i] # "new") =>
            /\ steps[i].iterN >= 2
            /\ {steps[j].job : j \in RefineStepsOf(steps[i].iterN)}
                   = 1..JobsOf(numberOfThreads, numberOfMpi)
            /\ \A j \in RefineStepsOf(steps[i].iterN) : stepStatus[j] = "finished"

\* The merge of iteration 3 running in a run with three jobs.
C2_Witness ==
    \E i \in 1..Len(steps) :
        /\ steps[i].funcName = "mergeStep"
        /\ steps[i].iterN = 3
        /\ stepStatus[i] = "running"
        /\ Cardinality(RefineStepsOf(3)) = 3

\* The arguments are those of a refineStep: iter_total is finalIter and
\* iter_done is iterN - 1 for an iteration 2 <= iterN < finalIter.
IsRefineStepCall(a) == 1 <= a.iter_done /\ a.iter_done <= a.iter_total - 2

\* 'percUsed': percUsed / 100.0, the fraction handed to refine2d.
FractionOf(perc) == Rat(perc[1], perc[2] * 100)

\* C11: with 'Auto percent used' selected, every refineStep hands refine2d
\* the fraction of the auto schedule of its iteration, whatever the value
\* of the manual 'Percent used' parameter.
C11_AutoFractionIgnoresManual ==
    (percPc = "returned" /\ percArgs.autoPerc /\ IsRefineStepCall(percArgs)) =>
        REq(FractionOf(percRet), FractionOf(percPre))

\* The cycle at which the ramp of C12 ends: 3/4 of the total when the total
\* is >= 4, else the total.
RampCycle(total) == IF total >= 4 THEN Rat(total * 3, 4) ELSE Rat(total, 1)

\* x lies strictly between the limits a and b.
StrictlyBetween(x, a, b) ==
    \/ RLess(Rat(a, 1), x) /\ RLess(x, Rat(b, 1))
    \/ RLess(Rat(b, 1), x) /\ RLess(x, Rat(a, 1))

\* C12: the limit equals the end limit when the total number of iterations
\* is <= 1 or the current iteration has reached the ramp cycle; for every
\* earlier iteration it is interpolated, hence strictly between the start and
\* the end limit.
C12_HighResRamp ==
    resPc = "returned" =>
        IF resArgs.finalIter <= 1
              \/ ~RLess(Rat(resArgs.iterN, 1), RampCycle(resArgs.finalIter))
        THEN resRet = Rat(resArgs.highResLimit2, 1)
        ELSE StrictlyBetween(resRet, resArgs.highResLimit1, resArgs.highResLimit2)

\* The row readCtfModelStack used.
UsedRow == Values(ctfArray, item)

\* The row used is valid: no NaN and no negative defocus.
ValidRow == ~InvalidCtf(ctfArray, item)

\* The tilt triple is (row[7], row[8], row[9]).
TiltFromRow ==
    ctfTilt = <<Val(UsedRow[8].v), Val(UsedRow[9].v), Val(UsedRow[10].v)>>

\* C13 as stated: tiltAxis, tiltAngle, thickness are row[7], row[8], row[9]
\* for every valid row of 10 or more columns, and None for a row of fewer
\* than 10 columns.
C13_TiltOfTenOrMoreColumns ==
    (ctfPc = "returned" /\ ValidRow) =>
        IF Len(UsedRow) >= 10 THEN TiltFromRow ELSE ctfTilt = None3

\* C13: for a valid row of 7 or more columns, tiltAxis, tiltAngle, thickness
\* are row[7], row[8], row[9] when the row has exactly 10 columns, and None
\* for all three when it has fewer or more.
C13_TiltOfExactlyTenColumns ==
    (ctfPc = "returned" /\ ValidRow) =>
        IF Len(UsedRow) = 10 THEN TiltFromRow ELSE ctfTilt = None3

\* A valid row of 10 columns has been read: the triple is (7, 8, 9).
C13_Witness ==
    /\ ctfPc = "returned"
    /\ ValidRow
    /\ Len(UsedRow) = 10
    /\ ctfTilt = <<Val(7), Val(8), Val(9)>>

\* Lines 0 and 1 of block b of the file.
AvrotLine0(b) == avrotFile.lines[6 * (b - 1) + 1]
AvrotLine1(b) == avrotFile.lines[6 * (b - 1) + 2]

\* The columns of block b whose line-0 value lies in [0.25, 0.28].
BandColumns(b) ==
    {k \in 1..Len(AvrotLine0(b)) : AvrotLine0(b)[k].v >= 25 /\ AvrotLine0(b)[k].v <= 28}

\* The sum of |line 1| over the columns S of block b.
RECURSIVE AbsSumOver(_, _)
AbsSumOver(b, S) ==
    IF S = {} THEN 0
    ELSE LET k == CHOOSE x \in S : TRUE
         IN  Abs(AvrotLine1(b)[k].v) + AbsSumOver(b, S \ {k})

\* The file holds whole blocks of 6 lines.
WholeBlocks == avrotFile.exists /\ Len(avrotFile.lines) % 6 = 0

\* The sum of |line 1| over exactly the band columns of block b: NaN only
\* when one of those columns holds a NaN.
BandSum(b) ==
    IF \E k \in BandColumns(b) : AvrotLine1(b)[k].nan THEN NaN
    ELSE Num(AbsSumOver(b, BandColumns(b)))

C17_PhaseShiftSetIffNonZero ==
    (ctfPc = "returned" /\ ValidRow) =>
        /\ ctfModel.phaseShift.set <=> Rad2Deg(UsedRow[5].v) # 0
        /\ ctfModel.phaseShift.set => ctfModel.phaseShift.v = Rad2Deg(UsedRow[5].v)
        /\ UsedRow[5].v = 0 => ctfModel.phaseShift = Unset

\* A valid row with phaseShiftRad = 0 has been read: defocus, fit and
\* resolution are set, the phase shift is not.
C17_Witness ==
    /\ ctfPc = "returned"
    /\ ValidRow
    /\ UsedRow[5] = Num(0)
    /\ ctfModel.defocusU.set
    /\ ctfModel.fitQuality.set
    /\ ~ctfModel.phaseShift.set

\* The lines of the result file that are not comments.
ResultData == SelectSeq(ctfFn.lines, LAMBDA l : ~l.comment)

\* C14: a result file with an unparsable token is an invalid result:
\* parseCtffindOutput raises nothing and readCtfModel yields the sentinel
\* record.
C14_MalformedGivesSentinel ==
    (filePc = "returned" /\ ctfFn.exists
        /\ \E k \in 1..Len(ResultData) : ResultData[k].bad)
    => /\ parsedResult.err = "none"
       /\ fileErr = "none"
       /\ IsSentinel(fileModel)

\* What readCtfModel gives for the file that holds the first result line
\* alone.
FirstLineOnly == readCtfModel(NewCtfModel, File(<<ResultData[1]>>), rotAvgFn)

\* C15: the record is built from the first non-comment line only: lines
\* after it, whatever their number of columns, raise no error and change
\* nothing.
C15_FurtherLinesIgnored ==
    (filePc = "returned" /\ ctfFn.exists /\ Len(ResultData) >= 1
        /\ FirstLineOnly.err = "none")
    => /\ fileErr = "none"
       /\ fileModel = FirstLineOnly.model

\* What readCtfModel gives when no companion file is named.
WithoutCompanion ==
    readCtfModel(NewCtfModel, ctfFn, [given |-> FALSE, file |-> Absent])

\* C16: a missing result file makes parseCtffindOutput return None without
\* raising and readCtfModel return the sentinel record; a missing companion
\* file leaves the record without ice-ring density, as if none was named.
C16_MissingFilesGiveNone ==
    /\ (filePc = "returned" /\ ~ctfFn.exists)
       => /\ parsedResult.err = "none"
          /\ ArrayIsNone(parsedResult.arr)
          /\ fileErr = "none"
          /\ IsSentinel(fileModel)
    /\ (filePc = "returned" /\ rotAvgFn.given /\ ~rotAvgFn.file.exists)
       => /\ fileModel.iceRing = Unset
          /\ fileErr = WithoutCompanion.err
          /\ fileModel = WithoutCompanion.model

C16_Witness ==
    /\ filePc = "returned"
    /\ ~ctfFn.exists
    /\ rotAvgFn.given /\ ~rotAvgFn.file.exists
    /\ fileErr = "none"
    /\ IsSentinel(fileModel)

\* runJob raises for some item of the step, and every input file exists.
SomeRunJobFails ==
    /\ \E k \in 1..Len(itemList) : itemList[k].fails
    /\ \A k \in 1..Len(itemList) : itemList[k].input

\* C19: when runJob raises for an item the step logs the error and returns
\* normally, with or without a log file of the program, and every item of
\* the list is processed.
C19_FailureLoggedNotRaised ==
    (itemPc = "returned" /\ SomeRunJobFails)
    => /\ itemErr = "none"
       /\ Len(itemOut) = Len(itemList)
       /\ \A k \in 1..Len(itemList) : itemList[k].fails <=> itemOut[k] # "none"

\* The names of the placeholders of the template.
PlaceholderNames == {cmdArgs[k].name : k \in {j \in 1..Len(cmdArgs) : ~cmdArgs[j].lit}}

\* The dictionary the one substitution pass of getCommand uses.
MergedParams == Updated(cmdParams, cmdKwargs)

\* C20: for every combination of the options, every placeholder of the
\* template has a key in the parameter mapping merged with the keyword
\* arguments of the callers, and a placeholder without a key makes
\* getCommand raise, with nothing rendered.
C20_PlaceholdersResolvedOrRaise ==
    /\ (cmdPc = "returned" /\ DOMAIN cmdKwargs = KwargNames)
       => /\ PlaceholderNames \subseteq DOMAIN MergedParams
          /\ cmdErr # "KeyError"
          /\ (cmdErr = "none" => Len(cmdOut) = Len(cmdArgs)
                                 /\ \A k \in 1..Len(cmdOut) : cmdOut[k] # "")
    /\ (cmdPc = "returned" /\ ~(PlaceholderNames \subseteq DOMAIN MergedParams))
       => /\ cmdErr = "KeyError"
          /\ cmdOut = <<>>

C20_Witness ==
    /\ cmdPc = "returned"
    /\ DOMAIN cmdKwargs = KwargNames
    /\ cmdProtocol.usePowerSpectra /\ cmdProtocol.useStacks
    /\ cmdProtocol.fixAstig /\ cmdProtocol.findPhaseShift
    /\ cmdProtocol.tomo /\ cmdProtocol.measureThickness
    /\ cmdErr = "none"
    /\ Len(cmdOut) = Len(BaseArgs) + 11

\* Every line of the .plt file has two readable tokens at least.
WellFormedPlt ==
    pltFile.exists /\ \A k \in 1..Len(pltFile.lines) : LineError(pltFile.lines[k]) = "none"

\* The coordinate readCoordinates appended for line k.
CoordOfLine(k) == coordsSet[Len(coordsAtCall) + k]

\* A micrograph without .plt file adds no coordinate and raises nothing.
NoFileNoCoordinate ==
    (coordPc = "returned" /\ ~pltFile.exists)
    => coordErr = "none" /\ coordsSet = coordsAtCall

\* C21 as stated: each line gives one coordinate, x its first token and y
\* the micrograph height minus its second token; a micrograph without
\* .plt file gives none and no error.
C21_FirstTokenIsX ==
    /\ NoFileNoCoordinate
    /\ (coordPc = "returned" /\ WellFormedPlt)
       => /\ coordErr = "none"
          /\ Len(coordsSet) = Len(coordsAtCall) + Len(pltFile.lines)
          /\ \A k \in 1..Len(pltFile.lines) :
                /\ CoordOfLine(k).x = pltFile.lines[k][1].v
                /\ CoordOfLine(k).y = coordMic.yDim - pltFile.lines[k][2].v

\* C21, amended: each line of two readable tokens at least gives one
\* coordinate of the micrograph, x its second token and y the micrograph
\* height minus its first token, appended in line order after the
\* coordinates the set held; a micrograph without .plt file gives none and
\* no error.
C21_SecondTokenIsX ==
    /\ NoFileNoCoordinate
    /\ (coordPc = "returned" /\ WellFormedPlt)
       => /\ coordErr = "none"
          /\ Len(coordsSet) = Len(coordsAtCall) + Len(pltFile.lines)
          /\ SubSeq(coordsSet, 1, Len(coordsAtCall)) = coordsAtCall
          /\ \A k \in 1..Len(pltFile.lines) :
                /\ CoordOfLine(k).x = pltFile.lines[k][2].v
                /\ CoordOfLine(k).y = coordMic.yDim - pltFile.lines[k][1].v
                /\ CoordOfLine(k).mic = coordMic.id

C21_Witness ==
    /\ coordPc = "returned"
    /\ WellFormedPlt
    /\ Len(pltFile.lines) = 2
    /\ pltFile.lines[1] = <<Tok(3), Tok(5)>>
    /\ coordsAtCall # <<>>
    /\ CoordOfLine(1) = [x |-> 5, y |-> coordMic.yDim - 3, mic |-> 2]

\* The iterations that have refine jobs in the run.
RefineIters == {runSteps[i].iterN : i \in {n \in 1..Len(runSteps) : runSteps[n].funcName = "refineStep"}}

\* The id of refineStep(iterN, job).
RefineId(iterN, job) ==
    CHOOSE i \in 1..Len(runSteps) :
        /\ runSteps[i].funcName = "refineStep"
        /\ runSteps[i].iterN = iterN
        /\ runSteps[i].job = job

\* Every refine job of the iteration has taken its range.
AllJobsStarted(iterN) == \A job \in 1..runJobs : runStatus[RefineId(iterN, job)] # "new"

\* firstPart..lastPart of refineStep(iterN, job)
RangeOfJob(iterN, job) == runRanges[RefineId(iterN, job)]

\* C22: the ranges of jobs 1..J of an iteration are each non-empty, lie
\* within 1..numParticles, are contiguous and disjoint and together are
\* exactly 1..numParticles.
C22_RangesPartitionParticles ==
    \A iterN \in RefineIters :
        AllJobsStarted(iterN)
        => /\ \A job \in 1..runJobs :
                 /\ RangeOfJob(iterN, job).firstPart <= RangeOfJob(iterN, job).lastPart
                 /\ 1 <= RangeOfJob(iterN, job).firstPart
                 /\ RangeOfJob(iterN, job).lastPart <= runParts
           /\ RangeOfJob(iterN, 1).firstPart = 1
           /\ \A job \in 1..(runJobs - 1) :
                 RangeOfJob(iterN, job + 1).firstPart = RangeOfJob(iterN, job).lastPart + 1
           /\ RangeOfJob(iterN, runJobs).lastPart = runParts

\* The range of a job when the jobs of an iteration run in job order 1..J.
RECURSIVE RangeInJobOrder(_)
RangeInJobOrder(job) ==
    IF job = 1 THEN JobRange(1, PtclsPerJob(runParts, runJobs), 1, runParts)
    ELSE JobRange(job, PtclsPerJob(runParts, runJobs),
                  RangeInJobOrder(job - 1).lastPart + 1, runParts)

\* The particles of a range.
ParticlesOf(r) == r.firstPart..r.lastPart

\* C23: whatever the executor's order of starting steps and whatever the
\* counter held after the iteration before, a started refine job has the
\* range it has in job order 1..J; once all jobs of an iteration have
\* started no particle is in two ranges and none is left out.
C23_RangesIndependentOfSchedule ==
    \A iterN \in RefineIters :
        /\ \A job \in 1..runJobs :
              runStatus[RefineId(iterN, job)] # "new"
              => RangeOfJob(iterN, job) = RangeInJobOrder(job)
        /\ AllJobsStarted(iterN)
           => /\ \A j1 \in 1..runJobs : \A j2 \in 1..runJobs :
                    j1 # j2 => ParticlesOf(RangeOfJob(iterN, j1))
                               \cap ParticlesOf(RangeOfJob(iterN, j2)) = {}
              /\ \A n \in 1..runParts :
                    \E job \in 1..runJobs : n \in ParticlesOf(RangeOfJob(iterN, job))

\* The second job of the third iteration has started: the counter was
\* left past the last particle by the second iteration.
C23_Witness ==
    /\ 3 \in RefineIters
    /\ runJobs >= 2
    /\ runParts >= 4
    /\ runStatus[RefineId(3, 2)] = "running"
    /\ runStatus[RefineId(2, runJobs)] = "finished"
    /\ RangeOfJob(3, 2) = RangeInJobOrder(2)
    /\ RangeOfJob(3, 2).firstPart > 1

\* The steps that run the refinement program for an iteration.
IsRefinement(step) == step.funcName \in {"makeInitClassesStep", "refineStep"}

\* The iterations of the refinement steps started so far, in order of
\* starting.
StartedIters ==
    [n \in 1..Len(runStarted) |->
        IF IsRefinement(runSteps[runStarted[n]]) THEN runSteps[runStarted[n]].iterN ELSE 0]

\* The steps that write the files of an iteration.
WritersOf(iterN) ==
    {i \in 1..Len(runSteps) :
        IF iterN = 1
        THEN runSteps[i].funcName \in {"writeInitParStep", "makeInitClassesStep"}
        ELSE runSteps[i].funcName = "mergeStep" /\ runSteps[i].iterN = iterN}

\* C25: the iterations 1..N run in increasing order, and a refine job of
\* iteration k >= 2 starts only when the parameter file and the class
\* averages of iteration k - 1 are complete, their writers having
\* finished.
C25_IterationsInOrderOnCompleteInputs ==
    /\ \A m \in 1..Len(runStarted) : \A n \in m..Len(runStarted) :
          (StartedIters[m] # 0 /\ StartedIters[n] # 0) => StartedIters[m] <= StartedIters[n]
    /\ \A i \in 1..Len(runSteps) :
          (runSteps[i].funcName = "refineStep" /\ runStatus[i] # "new")
          => /\ runSteps[i].iterN \in 2..runIterations
             /\ InputsOf(runSteps[i])
                   = {RunFile("iter_par", runSteps[i].iterN - 1, 0),
                      RunFile("iter_cls", runSteps[i].iterN - 1, 0)}
             /\ InputsOf(runSteps[i]) \subseteq runFiles
             /\ \A w \in WritersOf(runSteps[i].iterN - 1) : runStatus[w] = "finished"
    /\ (\A i \in 1..Len(runSteps) : runStatus[i] = "finished")
       => {n \in 1..runIterations : \E m \in 1..Len(StartedIters) : StartedIters[m] = n}
             = 1..runIterations

\* The run of three iterations has finished iteration 2 and a job of
\* iteration 3 runs.
C25_Witness ==
    /\ 3 \in RefineIters
    /\ runJobs >= 2
    /\ runStatus[RefineId(3, 2)] = "running"
    /\ RunFile("iter_par", 2, 0) \in runFiles
    /\ RunFile("iter_cls", 2, 0) \in runFiles
    /\ \A w \in WritersOf(2) : runStatus[w] = "finished"

\* C24: for every run of N >= 1 iterations _lastIter() returns N, the
\* largest iteration with a merged parameter file.
C24_LastIterIsFinalIteration ==
    lastIterPc = "returned" => lastIterRet = lastIterRun.n

\* Particle a comes before particle b by (_micId, id) ascending.
ByMicThenId(a, b) ==
    \/ inputParticles[a].micId < inputParticles[b].micId
    \/ (inputParticles[a].micId = inputParticles[b].micId /\ a < b)

\* The k-th particle by (_micId, id) ascending.
KthParticle(k) ==
    CHOOSE a \in 1..Len(inputParticles) :
        Cardinality({b \in 1..Len(inputParticles) : ByMicThenId(b, a)}) = k - 1

\* C26: the stack, the rows of the initial parameter file and the
\* assignment of the rows to the particles all follow (_micId, id)
\* ascending: image k of the stack is, row k is written for, and the class
\* id and transform of row k are given to, the k-th particle of that order.
C26_OneParticleOrder ==
    /\ parPc # "convert"
       => /\ Len(parStack) = Len(inputParticles)
          /\ \A k \in 1..Len(parStack) : parStack[k] = KthParticle(k)
    /\ parPc \in {"written", "read", "filled"}
       => /\ Len(parFile.lines) = Len(inputParticles) + 1
          /\ \A k \in 1..Len(inputParticles) :
                parFile.lines[k + 1]
                   = InitParRow(k - 1, inputParticles[KthParticle(k)], hasAlignment)
    /\ parPc = "filled"
       => \A k \in 1..Len(outputSet) :
             /\ outputSet[k].id = KthParticle(k)
             /\ \E sr \in SamplingRates :
                   outputSet[k] = updateParticle(inputParticles[KthParticle(k)],
                                                 KthParticle(k), parRows[k], sr).item

\* Two particles whose order by micrograph is not their order by id, with
\* different CTFs; both have their rows assigned.
C26_Witness ==
    /\ parPc = "filled"
    /\ Len(inputParticles) = 2
    /\ inputParticles[1].micId > inputParticles[2].micId
    /\ inputParticles[1].ctf # inputParticles[2].ctf
    /\ parStack = <<2, 1>>
    /\ Len(outputSet) = 2
    /\ outputSet[1].id = 2

\* C27: the CTF stored for tilt image i is the one readCtfModelStack
\* builds from row i on a newly created model, whatever rows came before.
C27_ImageDependsOnOwnRowOnly ==
    \A k \in 1..Len(tiSeries) :
        tiSeries[k] = _getCtfTi(NewCtfModel, tiArray, tiRot, k - 1).ctfTomo

\* C28: the program run for item X receives the script rendered from X's
\* own values, under every interleaving of the parallel steps.
C28_OwnArgumentsUnderInterleaving ==
    \A x \in 1..argItems :
        argPc[x] = "done" => argRun[x] = OwnValues(argKind, x)

\* The createOutputStep steps, and those that have run their body.
CreateOutputIds == {i \in 1..Len(tsSteps) : tsSteps[i].funcName = "createOutputStep"}
CreateOutputRan == {i \in CreateOutputIds : tsStatus[i] \in {"finished", "failed"}}
CloseId == Len(tsSteps)

\* C29: one output set is created, by the first createOutputStep to run and
\* open for appending, and the later ones append to it; closeStep runs only
\* after every createOutputStep has finished, and the set then holds one
\* CTF series per input tilt series, each with one CTF per tilt image.
C29_OneOutputSetClosedWhenComplete ==
    /\ tsCreations = (IF CreateOutputRan = {} THEN 0 ELSE 1)
    /\ tsOut.exists <=> CreateOutputRan # {}
    /\ Len(tsOut.series) = Cardinality(CreateOutputRan)
    /\ (tsOut.exists /\ tsStatus[CloseId] # "finished") => tsOut.streamState = "open"
    /\ tsStatus[CloseId] # "new"
       => /\ \A i \in CreateOutputIds : tsStatus[i] = "finished"
          /\ Len(tsOut.series) = Len(tsImages)
          /\ \A s \in 1..Len(tsImages) :
                Cardinality({k \in 1..Len(tsOut.series) :
                                tsOut.series[k].tsId = s}) = 1
          /\ \A k \in 1..Len(tsOut.series) :
                tsOut.series[k].ctfs = tsImages[tsOut.series[k].tsId]

\* Two series whose createOutputStep ran in the reverse of their order of
\* insertion; the set is closed and holds both.
C29_Witness ==
    /\ Len(tsImages) = 2
    /\ tsStatus[CloseId] = "finished"
    /\ tsOut.streamState = "closed"
    /\ Len(tsOut.series) = 2
    /\ tsOut.series[1].tsId = 2
    /\ tsLog[1] = "missing"
    /\ tsImages[1] = 2

\* C30: the micrographs reported ready are exactly the loaded micrographs
\* whose key is in the loaded CTF set, each carrying the CTF of its key; a
\* micrograph whose CTF has not arrived is not among them; the input is
\* reported closed exactly when both streams are closed.
C30_ReadyIffCtfLoaded ==
    loadPc = "returned"
    => /\ \A k \in MicKeys :
             k \in DOMAIN readyMics <=> (k \in DOMAIN micDict /\ k \in DOMAIN ctfDict)
       /\ \A k \in DOMAIN readyMics : readyMics[k] = ctfDict[k]
       /\ loadClosed <=> (micClose /\ ctfClosed)

\* Of two loaded micrographs one has its CTF and is ready, the other waits;
\* a CTF has arrived whose micrograph has not; the micrograph stream is
\* closed, the CTF stream is not.
C30_Witness ==
    /\ loadPc = "returned"
    /\ DOMAIN micDict = {1, 2}
    /\ DOMAIN ctfDict = {2, 3}
    /\ DOMAIN readyMics = {2}
    /\ readyMics[2] = 12
    /\ micClose /\ ~ctfClosed
    /\ ~loadClosed

====
